---- MODULE Spec2Model ----
(***************************************************************************)
(* Model of the multi-pass renderer of tsl-gradient-pills: the PostFX     *)
(* frame pipeline (src/src/PostFX.js), the application that drives it      *)
(* (src/src/main.js, src/src/gui.js) and the per-pixel compositing algebra *)
(* built in the PostFX constructor.                                        *)
(***************************************************************************)
EXTENDS Integers, Sequences, FiniteSets, TLC

(***************************************************************************)
(* Bounds of the model.                                                    *)
(***************************************************************************)
\* Pills modelled per scene (the grid scene has 12, the tubes scene 60).
MaxScenePills == 2
\* Frames begun in one behaviour.
MaxFrames == 3
\* Latest time of a loop callback, in thirds of the frame interval.
MaxTime == 8
\* Phases of a looping animation that are told apart.
AnimPhases == 3
\* Gradient stops and gradient parameters are multiples of 1 / StopMax in 0..1.
StopMax == 3
\* Render submissions that throw in one behaviour.
MaxFailures == 1
\* Event handlers (scene switch, slider) that run in one behaviour.
MaxEvents == 2
\* Fixed-point resolution: a texel or uniform value v stands for v / Unit.
Unit == 2

(***************************************************************************)
(* Scenes and pills (scenes.js, main.js).                                  *)
(***************************************************************************)
\* Insertion order of the scenes object built by buildAllScenes.
SceneNames == <<"mono", "duo", "grid", "tubes">>

Scenes == {SceneNames[i] : i \in 1..Len(SceneNames)}

Min(a, b) == IF a < b THEN a ELSE b

\* Number of pills each scene builder creates, cut at MaxScenePills.
PillCount(s) ==
  CASE s = "mono" -> 1
    [] s = "duo" -> Min(2, MaxScenePills)
    [] s = "grid" -> Min(6 * 2, MaxScenePills)
    [] s = "tubes" -> Min(6 * 5 * 2, MaxScenePills)

\* scenes[s].pills: the ordered pill list of one scene.
ScenePills(s) == [i \in 1..PillCount(s) |-> <<s, i>>]

Range(q) == {q[i] : i \in 1..Len(q)}

AllPills == UNION {Range(ScenePills(s)) : s \in Scenes}

\* Object.values(scenes).flatMap((s) => s.pills)
AllPillsSeq ==
  ScenePills("mono") \o ScenePills("duo") \o ScenePills("grid") \o ScenePills("tubes")

SceneOf(p) == p[1]

(***************************************************************************)
(* Edge-glow scalars are kept in halves: uniform(1.0) is 2, 1.5 is 3.      *)
(***************************************************************************)
\* edgeGlow: uniform(1.0) in the Pill constructor.
InitialEdgeGlow == 2

\* savedEdgeGlow = 1.0 in createGUI.
InitialSavedEdgeGlow == 2

\* scenePresets[s].edgeGlow; the tubes scene has no preset ("waves" is no scene).
HasPreset(s) == s \in {"mono", "grid", "duo"}

PresetEdgeGlow(s) == IF s = "grid" THEN 3 ELSE 2

\* Values the edge-glow slider (range 0..5) is moved to.
EdgeGlowSlider == {0}

VARIABLES
  phase,            \* "booting" | "running" | "fatal": renderer.init() and initApp
  pc,               \* position of the frame in PostFX.render / renderAsync
  mode,             \* who runs the frame: "init" | "sync" | "async"
  args,             \* the arguments of the running render call
  edgeGlow,         \* pill.uniforms.edgeGlow.value
  pillVisible,      \* pill.mesh.visible
  planeVisible,     \* pill.glowPlane.mesh.visible
  containerVisible, \* scenes[s].container.visible
  currentSceneName,
  overrideMaterial, \* scene.overrideMaterial: "null" | "white"
  renderTarget,     \* renderer.setRenderTarget(...)
  colorTarget, maskTarget, glowTarget,
  screen,           \* the frame on the display surface
  writes,           \* targets written so far by the running frame, in order
  entry,            \* pill state when the running frame was entered
  savedEdgeGlow,    \* gui.getSavedEdgeGlow()
  frameNo, failures, events,
  loading,          \* text of the loading element
  texel,            \* one pixel of the textures the output node samples
  cfg,              \* the compositor's uniforms and the GUI's debug view
  output,           \* the output node's value for texel, once evaluated
  window,           \* window.innerWidth, innerHeight, devicePixelRatio (in halves)
  targets,          \* the render targets of PostFX and the target of scenePass
  now,              \* currentTime of the latest loop callback
  lastFrameTime,    \* lastFrameTime of main.js
  lastRenderTime,   \* currentTime of the latest callback that called animate
  builderPlaying,   \* per scene: the animation made inside its scene builder plays
  animationPlaying, \* per scene: scenes[s].animation plays
  sceneInputs,      \* per scene: the animated positions and group scale, as a phase
  bsIn,             \* arguments of one bsplineGradient evaluation
  bsOut,            \* its three segment values and its result, once evaluated
  shIn,             \* one fragment of a pill and of its glow plane at the same local y
  shOut,            \* the gradient parameter and colour of both, once evaluated
  glowPlane,        \* pill.glowPlane: the plane a pill refers to
  planes,           \* per glow plane: its pill field and the uniforms its shader reads
  uniformValue,     \* per pill: the values of its bend and wave uniforms
  groupRotation,    \* pillGroup.rotation.z
  position,         \* per pill: mesh.position and glowPlane.mesh.position, in tenths
  gui,              \* the values the GUI controls show
  pillSettings,     \* per pill: edgeWidth, and glowIntensity, glowFalloff of its plane
  bloom             \* postFX.edgesPass.strength and .radius

pipeVars ==
  <<phase, pc, mode, args, edgeGlow, pillVisible, planeVisible, containerVisible,
    currentSceneName, overrideMaterial, renderTarget, colorTarget, maskTarget,
    glowTarget, screen, writes, entry, savedEdgeGlow, frameNo,
    failures, events, loading>>

compVars == <<texel, cfg, output>>

sizeVars == <<window, targets>>

loopVars == <<now, lastFrameTime, lastRenderTime>>

animVars == <<builderPlaying, animationPlaying, sceneInputs>>

mathVars == <<bsIn, bsOut, shIn, shOut>>

glowVars == <<glowPlane, planes, uniformValue, groupRotation, position>>

settingsVars == <<gui, pillSettings, bloom>>

auxVars == <<sizeVars, loopVars, animVars, mathVars, glowVars, settingsVars>>

vars == <<pipeVars, compVars, auxVars>>

(***************************************************************************)
(* Render-target sizes (PostFX.js getTargetSize, resize; main.js resize).   *)
(* The device pixel ratio and the target sizes are kept in halves: a ratio  *)
(* of 1.5 is 3, a width of 1200.5 pixels is 2401.                           *)
(***************************************************************************)
\* const MAX_TEXTURE_SIZE = 4096
MAX_TEXTURE_SIZE == 4096

\* Windows the browser may report.
Viewports ==
  [innerWidth : {800, 2731, 5000}, innerHeight : {600, 4096, 4097},
   devicePixelRatio : {2, 3, 4, 5, 6}]

\* Windows the browser reports while frames are rendered.
FrameViewports ==
  {[innerWidth |-> 800, innerHeight |-> 600, devicePixelRatio |-> 2],
   [innerWidth |-> 5000, innerHeight |-> 600, devicePixelRatio |-> 3]}

TargetNames == {"colorTarget", "maskTarget", "glowTarget", "scenePass"}

\* getTargetSize without the cap at MAX_TEXTURE_SIZE.
getTargetSizeUncapped(win) ==
  LET dpr == Min(win.devicePixelRatio, 2 * 2)
  IN [w |-> win.innerWidth * dpr, h |-> win.innerHeight * dpr]

\* getTargetSize(): the ratio is capped at 2, each axis at MAX_TEXTURE_SIZE.
getTargetSize(win) ==
  LET dpr == Min(win.devicePixelRatio, 2 * 2)
  IN [w |-> Min(win.innerWidth * dpr, 2 * MAX_TEXTURE_SIZE),
      h |-> Min(win.innerHeight * dpr, 2 * MAX_TEXTURE_SIZE)]

\* setSize that replaces the target by a new one.
setSizeRecreates(t, size) == [id |-> t.id + 4, w |-> size.w, h |-> size.h]

\* target.setSize(w, h): the target object stays, its size is assigned.
setSize(t, size) == [t EXCEPT !.w = size.w, !.h = size.h]

\* new THREE.RenderTarget(w, h) for the three targets, pass(scene, camera).
NewTargets(size) ==
  [n \in TargetNames |->
    [id |-> CASE n = "colorTarget" -> 1 [] n = "maskTarget" -> 2
              [] n = "glowTarget" -> 3 [] n = "scenePass" -> 4,
     w |-> size.w, h |-> size.h]]

\* PostFX.resize(): the three targets and the scene pass get the size of the window.
PostFXResize(ts, win) == [n \in TargetNames |-> setSize(ts[n], getTargetSize(win))]

\* After the PostFX constructor and the resize() call at the end of main.js's set-up.
SizeInit(views) ==
  /\ window \in views
  /\ targets = PostFXResize(NewTargets(getTargetSize(window)), window)

(***************************************************************************)
(* What one render submission draws.  A target holds, per pill, how the    *)
(* pill mesh and its glow plane were drawn and with which edge glow.       *)
(***************************************************************************)
Blank == [p \in AllPills |-> [mesh |-> "none", edgeGlow |-> 0, plane |-> "none"]]

\* renderer.render(scene, camera): every visible mesh of a visible container is
\* drawn with its own material, or with scene.overrideMaterial when one is set.
RenderScene(ov, pv, gv, cv, eg) ==
  [p \in AllPills |->
    LET shown == cv[SceneOf(p)] /\ pv[p]
        plane == cv[SceneOf(p)] /\ gv[p]
    IN [mesh |-> IF ~shown THEN "none" ELSE IF ov = "white" THEN "white" ELSE "shaded",
        edgeGlow |-> IF shown /\ ov = "null" THEN eg[p] ELSE 0,
        plane |-> IF ~plane THEN "none" ELSE IF ov = "white" THEN "white" ELSE "glow"]]

\* SetVisible with the flag ignored: every mesh of the list is shown.
SetVisibleAlwaysShows(vis, list, b) ==
  [p \in AllPills |-> IF p \in Range(list) THEN TRUE ELSE vis[p]]

\* glowPlanes.forEach((glow) => (glow.mesh.visible = b)) and the same for pills.
SetVisible(vis, list, b) ==
  [p \in AllPills |-> IF p \in Range(list) THEN b ELSE vis[p]]

\* SetEdgeGlow with a loop that stops one pill early.
SetEdgeGlowSkipsLast(eg, list, v) ==
  [p \in AllPills |->
    IF \E i \in 1..(Len(list) - 1) : list[i] = p THEN v ELSE eg[p]]

\* pills.forEach((pill) => (pill.uniforms.edgeGlow.value = v))
SetEdgeGlow(eg, list, v) ==
  [p \in AllPills |-> IF p \in Range(list) THEN v ELSE eg[p]]

\* getCurrentPills() and getGlowPlanes()
getCurrentPills ==
  IF currentSceneName = "null" THEN <<>> ELSE ScenePills(currentSceneName)

\* pills.map((pill) => pill.glowPlane)
GlowPlanesOf(gp, pills) == [i \in 1..Len(pills) |-> gp[pills[i]]]

getGlowPlanes == GlowPlanesOf(glowPlane, getCurrentPills)

PipeInit ==
  /\ phase = "booting"
  /\ pc = "idle"
  /\ mode = "sync"
  /\ args = [pills |-> <<>>, savedEdgeGlow |-> 0, glowPlanes |-> <<>>]
  /\ edgeGlow = [p \in AllPills |-> InitialEdgeGlow]
  /\ pillVisible = [p \in AllPills |-> TRUE]
  /\ planeVisible = [p \in AllPills |-> TRUE]
  /\ containerVisible = [s \in Scenes |-> FALSE]
  /\ currentSceneName = "null"
  /\ overrideMaterial = "null"
  /\ renderTarget = "null"
  /\ colorTarget = Blank
  /\ maskTarget = Blank
  /\ glowTarget = Blank
  /\ screen = [frame |-> 0, by |-> "none", passes |-> <<>>, savedEdgeGlow |-> 0,
               color |-> Blank, mask |-> Blank, glow |-> Blank, scene |-> Blank]
  /\ writes = <<>>
  /\ entry = [edgeGlow |-> edgeGlow, pillVisible |-> pillVisible,
              planeVisible |-> planeVisible, overrideMaterial |-> overrideMaterial,
              targets |-> targets]
  /\ savedEdgeGlow = InitialSavedEdgeGlow
  /\ frameNo = 0
  /\ failures = 0
  /\ events = 0
  /\ loading = "Initializing WebGPU..."

(***************************************************************************)
(* PostFX.render and PostFX.renderAsync.  pc names the submission the      *)
(* frame is about to make ("ColorPass", ...) or has just made              *)
(* ("ColorDone", ...); renderAsync awaits at the Done positions.           *)
(***************************************************************************)
PassPositions == {"ColorPass", "MaskPass", "GlowPass", "ScenePass"}

DonePositions == {"ColorDone", "MaskDone", "GlowDone", "SceneDone"}

\* The position after a submission that returned.
Returned(at) ==
  CASE at = "ColorPass" -> "ColorDone"
    [] at = "MaskPass" -> "MaskDone"
    [] at = "GlowPass" -> "GlowDone"
    [] at = "ScenePass" -> "SceneDone"

\* Thrown with the exception swallowed: the frame goes on.
ThrownSwallowed(at) == Returned(at)

\* The position after a submission that threw: nothing in render catches it.
Thrown(at) == "idle"

\* renderer.render draws into the target set by renderer.setRenderTarget.
WriteTarget(name, old, drawn) == IF renderTarget = name THEN drawn ELSE old

Drawn == RenderScene(overrideMaterial, pillVisible, planeVisible, containerVisible, edgeGlow)

\* Lines 120-125: the call, up to the first submission.
BeginRender(pills, saved, glowPlanes, m) ==
  /\ frameNo < MaxFrames
  /\ frameNo' = frameNo + 1
  /\ mode' = m
  /\ args' = [pills |-> pills, savedEdgeGlow |-> saved, glowPlanes |-> glowPlanes]
  /\ entry' = [edgeGlow |-> edgeGlow, pillVisible |-> pillVisible,
               planeVisible |-> planeVisible, overrideMaterial |-> overrideMaterial,
               targets |-> targets]
  /\ writes' = <<>>
  /\ planeVisible' = SetVisible(planeVisible, glowPlanes, FALSE)
  /\ edgeGlow' = SetEdgeGlow(edgeGlow, pills, 0)
  /\ renderTarget' = "colorTarget"
  /\ pc' = "ColorPass"

\* renderer.render(scene, camera) of the colour, mask and glow passes.
TargetPass ==
  /\ pc \in {"ColorPass", "MaskPass", "GlowPass"}
  /\ colorTarget' = WriteTarget("colorTarget", colorTarget, Drawn)
  /\ maskTarget' = WriteTarget("maskTarget", maskTarget, Drawn)
  /\ glowTarget' = WriteTarget("glowTarget", glowTarget, Drawn)
  /\ writes' = Append(writes, renderTarget)
  /\ pc' = Returned(pc)
  /\ UNCHANGED <<phase, mode, args, edgeGlow, pillVisible, planeVisible,
                 containerVisible, currentSceneName, overrideMaterial, renderTarget, screen, entry, savedEdgeGlow, frameNo, failures,
                 loading, events>>
  /\ UNCHANGED <<compVars, auxVars>>

\* MaskSetup without renderer.setRenderTarget(maskTarget).
MaskSetupKeepsTarget ==
  /\ pc = "ColorDone"
  /\ overrideMaterial' = "white"
  /\ pc' = "MaskPass"
  /\ UNCHANGED <<phase, mode, args, edgeGlow, pillVisible, planeVisible,
                 containerVisible, currentSceneName, renderTarget, colorTarget,
                 maskTarget, glowTarget, screen, writes, entry, savedEdgeGlow,
                 frameNo, failures, events, loading>>
  /\ UNCHANGED <<compVars, auxVars>>

\* Lines 128-130.
MaskSetup ==
  /\ pc = "ColorDone"
  /\ overrideMaterial' = "white"
  /\ renderTarget' = "maskTarget"
  /\ pc' = "MaskPass"
  /\ UNCHANGED <<phase, mode, args, edgeGlow, pillVisible, planeVisible,
                 containerVisible, currentSceneName, colorTarget, maskTarget,
                 glowTarget, screen, writes, entry, savedEdgeGlow,
                 frameNo, failures, loading, events>>
  /\ UNCHANGED <<compVars, auxVars>>

\* GlowSetup without the restore of the edge glow (line 135).
GlowSetupNoRestore ==
  /\ pc = "MaskDone"
  /\ overrideMaterial' = "null"
  /\ pillVisible' = SetVisible(pillVisible, args.pills, FALSE)
  /\ planeVisible' = SetVisible(planeVisible, args.glowPlanes, TRUE)
  /\ renderTarget' = "glowTarget"
  /\ pc' = "GlowPass"
  /\ UNCHANGED <<phase, mode, args, edgeGlow, containerVisible, currentSceneName,
                 colorTarget, maskTarget, glowTarget, screen, writes, entry,
                 savedEdgeGlow, frameNo, failures, events, loading>>
  /\ UNCHANGED <<compVars, auxVars>>

\* Lines 132-140.
GlowSetup ==
  /\ pc = "MaskDone"
  /\ overrideMaterial' = "null"
  /\ edgeGlow' = SetEdgeGlow(edgeGlow, args.pills, args.savedEdgeGlow)
  /\ pillVisible' = SetVisible(pillVisible, args.pills, FALSE)
  /\ planeVisible' = SetVisible(planeVisible, args.glowPlanes, TRUE)
  /\ renderTarget' = "glowTarget"
  /\ pc' = "GlowPass"
  /\ UNCHANGED <<phase, mode, args, containerVisible, currentSceneName, colorTarget,
                 maskTarget, glowTarget, screen, writes, entry,
                 savedEdgeGlow, frameNo, failures, loading, events>>
  /\ UNCHANGED <<compVars, auxVars>>

\* Lines 143-148.
SceneSetup ==
  /\ pc = "GlowDone"
  /\ pillVisible' = SetVisible(pillVisible, args.pills, TRUE)
  /\ planeVisible' = SetVisible(planeVisible, args.glowPlanes, FALSE)
  /\ renderTarget' = "null"
  /\ pc' = "ScenePass"
  /\ UNCHANGED <<phase, mode, args, edgeGlow, containerVisible, currentSceneName,
                 overrideMaterial, colorTarget, maskTarget, glowTarget, screen, writes, entry, savedEdgeGlow, frameNo,
                 failures, loading, events>>
  /\ UNCHANGED <<compVars, auxVars>>

\* postProcessing.render(): the scene pass is drawn into its own target and the
\* output node, which samples the three targets, is drawn to the render target in
\* effect (the screen when it is null).
ScenePass ==
  /\ pc = "ScenePass"
  /\ screen' = IF renderTarget = "null"
               THEN [frame |-> frameNo, by |-> mode, passes |-> writes,
                     savedEdgeGlow |-> args.savedEdgeGlow, color |-> colorTarget,
                     mask |-> maskTarget, glow |-> glowTarget, scene |-> Drawn]
               ELSE screen
  /\ writes' = Append(writes, IF renderTarget = "null" THEN "screen" ELSE renderTarget)
  /\ pc' = Returned(pc)
  /\ UNCHANGED <<phase, mode, args, edgeGlow, pillVisible, planeVisible,
                 containerVisible, currentSceneName, overrideMaterial, renderTarget,
                 colorTarget, maskTarget, glowTarget, entry, savedEdgeGlow, frameNo,
                 failures, loading, events>>
  /\ UNCHANGED <<compVars, auxVars>>

\* Finish without line 154: the glow planes stay hidden.
FinishLeavesPlanesHidden ==
  /\ pc = "SceneDone"
  /\ pc' = "idle"
  /\ IF mode = "init"
     THEN /\ containerVisible' = [s \in Scenes |-> FALSE]
          /\ phase' = "running"
     ELSE UNCHANGED <<containerVisible, phase>>
  /\ UNCHANGED <<mode, args, edgeGlow, pillVisible, planeVisible, currentSceneName,
                 overrideMaterial, renderTarget, colorTarget, maskTarget, glowTarget,
                 screen, writes, entry, savedEdgeGlow, frameNo,
                 failures, loading, events>>
  /\ UNCHANGED <<compVars, auxVars>>

\* Line 154 and the return to the caller.  initApp goes on to hide every
\* container, and its caller registers the render loop.
Finish ==
  /\ pc = "SceneDone"
  /\ planeVisible' = SetVisible(planeVisible, args.glowPlanes, TRUE)
  /\ pc' = "idle"
  /\ IF mode = "init"
     THEN /\ containerVisible' = [s \in Scenes |-> FALSE]
          /\ phase' = "running"
     ELSE UNCHANGED <<containerVisible, phase>>
  /\ UNCHANGED <<mode, args, edgeGlow, pillVisible, currentSceneName,
                 overrideMaterial, renderTarget, colorTarget, maskTarget, glowTarget, screen, writes, entry, savedEdgeGlow, frameNo,
                 failures, loading, events>>
  /\ UNCHANGED <<compVars, auxVars>>

\* A submission throws (or, under renderAsync, rejects).  The exception leaves
\* render; inside initApp it reaches the catch of renderer.init().
PassThrow ==
  /\ pc \in PassPositions
  /\ failures < MaxFailures
  /\ failures' = failures + 1
  /\ pc' = Thrown(pc)
  /\ IF mode = "init"
     THEN /\ phase' = "fatal"
          /\ loading' = "WebGPU not supported."
     ELSE UNCHANGED <<phase, loading>>
  /\ UNCHANGED <<mode, args, edgeGlow, pillVisible, planeVisible, containerVisible,
                 currentSceneName, overrideMaterial, renderTarget, colorTarget,
                 maskTarget, glowTarget, screen, writes, entry,
                 savedEdgeGlow, frameNo, events>>
  /\ UNCHANGED <<compVars, auxVars>>

\* The output node has not been evaluated since the uniforms last changed.
NotEvaluated == [evaluated |-> FALSE]

(***************************************************************************)
(* Scene animations (scenes.js, main.js buildScene and switchScene).  A    *)
(* gsap timeline or tween plays from its creation until it is paused.      *)
(***************************************************************************)
\* The mono scene's animation object has empty play, pause and restart.
Animated(s) == s \in {"duo", "grid", "tubes"}

\* No scene is built.
AnimInit ==
  /\ builderPlaying = [s \in Scenes |-> FALSE]
  /\ animationPlaying = [s \in Scenes |-> FALSE]
  /\ sceneInputs = [s \in Scenes |-> 0]

\* buildDuoScene, buildGridScene and buildTubesScene end by creating the scene's
\* animation, which they return and main.js's buildScene does not keep.
BuilderAnimation(s) == Animated(s)

\* buildScene: the builder, then create...Animation again and animation.pause().
BuildAllScenes ==
  /\ builderPlaying' = [s \in Scenes |-> BuilderAnimation(s)]
  /\ animationPlaying' = [s \in Scenes |-> FALSE]
  /\ sceneInputs' = [s \in Scenes |-> 0]

\* An animation of scene s is playing and moves its pills and container.
Advancing(s) == Animated(s) /\ (builderPlaying[s] \/ animationPlaying[s])

\* switchScene: s.animation.pause() for every scene, then
\* currentAnimation.restart() for the new one.
SwitchAnimations(s) ==
  /\ animationPlaying' = [x \in Scenes |-> x = s]
  /\ sceneInputs' = [sceneInputs EXCEPT ![s] = 0]
  /\ UNCHANGED builderPlaying

(***************************************************************************)
(* shaderUtils.js: the B-spline gradient.  A colour is a triple of channel  *)
(* values; a gradient parameter or stop v stands for v / StopMax; a local   *)
(* parameter is the fraction n / d; a segment value is the fraction         *)
(* num[ch] / den per channel, with den = 6 * d^3 (den = 0: division by 0).  *)
(***************************************************************************)
Channels == {1, 2, 3}

Palette == {<<1, 0, 0>>, <<0, 1, 0>>, <<0, 0, 1>>, <<1, 1, 1>>}

\* bsplineBasis with the weight w1 computed as 3 t^3 - 6 t^2 + 3.
bsplineBasisWrongW1(n, d, p0, p1, p2, p3) ==
  LET w0 == 0 - n * n * n + 3 * n * n * d - 3 * n * d * d + d * d * d
      w1 == 3 * n * n * n - 6 * n * n * d + 3 * d * d * d
      w2 == 0 - 3 * n * n * n + 3 * n * n * d + 3 * n * d * d + d * d * d
      w3 == n * n * n
  IN [den |-> 6 * d * d * d,
      num |-> [ch \in Channels |-> w0 * p0[ch] + w1 * p1[ch] + w2 * p2[ch] + w3 * p3[ch]]]

\* bsplineBasis with the weight w3 computed as t^3 / 3.
bsplineBasisWrongW3(n, d, p0, p1, p2, p3) ==
  LET w0 == 0 - n * n * n + 3 * n * n * d - 3 * n * d * d + d * d * d
      w1 == 3 * n * n * n - 6 * n * n * d + 4 * d * d * d
      w2 == 0 - 3 * n * n * n + 3 * n * n * d + 3 * n * d * d + d * d * d
      w3 == 2 * n * n * n
  IN [den |-> 6 * d * d * d,
      num |-> [ch \in Channels |-> w0 * p0[ch] + w1 * p1[ch] + w2 * p2[ch] + w3 * p3[ch]]]

\* bsplineBasis(t, p0, p1, p2, p3) at t = n / d: the four weights over the
\* common denominator 6 d^3, then the weighted sum per channel.
bsplineBasis(n, d, p0, p1, p2, p3) ==
  LET w0 == 0 - n * n * n + 3 * n * n * d - 3 * n * d * d + d * d * d
      w1 == 3 * n * n * n - 6 * n * n * d + 4 * d * d * d
      w2 == 0 - 3 * n * n * n + 3 * n * n * d + 3 * n * d * d + d * d * d
      w3 == n * n * n
  IN [den |-> 6 * d * d * d,
      num |-> [ch \in Channels |-> w0 * p0[ch] + w1 * p1[ch] + w2 * p2[ch] + w3 * p3[ch]]]

\* clamp(x, lo, hi) for lo <= hi.
clamp(x, lo, hi) == IF x < lo THEN lo ELSE IF x > hi THEN hi ELSE x

\* seg2 with the control points of segment 3.
seg2Shifted(tClamped, c, st) ==
  bsplineBasis(tClamped - st[2], st[3] - st[2], c[2], c[3], c[4], c[4])

\* seg1, seg2, seg3 of bsplineGradient.
seg1(tClamped, c, st) ==
  bsplineBasis(tClamped - st[1], st[2] - st[1], c[1], c[1], c[2], c[3])

seg2(tClamped, c, st) ==
  bsplineBasis(tClamped - st[2], st[3] - st[2], c[1], c[2], c[3], c[4])

seg3(tClamped, c, st) ==
  bsplineBasis(tClamped - st[3], st[4] - st[3], c[2], c[3], c[4], c[4])

\* bsplineGradient without the clamp of t.
bsplineGradientUnclamped(t, c, st) ==
  LET tClamped == t
  IN [evaluated |-> TRUE,
      seg1 |-> seg1(tClamped, c, st),
      seg2 |-> seg2(tClamped, c, st),
      seg3 |-> seg3(tClamped, c, st),
      value |-> IF tClamped < st[2] THEN seg1(tClamped, c, st)
                ELSE IF tClamped < st[3] THEN seg2(tClamped, c, st)
                ELSE seg3(tClamped, c, st)]

\* bsplineGradient(t, c1, c2, c3, c4, s1, s2, s3, s4): the three segments are
\* evaluated and one is selected.
bsplineGradient(t, c, st) ==
  LET tClamped == clamp(t, st[1], st[4])
  IN [evaluated |-> TRUE,
      seg1 |-> seg1(tClamped, c, st),
      seg2 |-> seg2(tClamped, c, st),
      seg3 |-> seg3(tClamped, c, st),
      value |-> IF tClamped < st[2] THEN seg1(tClamped, c, st)
                ELSE IF tClamped < st[3] THEN seg2(tClamped, c, st)
                ELSE seg3(tClamped, c, st)]

\* Stops in 0..1 that do not decrease.
StopLists ==
  {st \in [1..4 -> 0..StopMax] : \A i \in 1..3 : st[i] <= st[i + 1]}

\* Arguments of an evaluation: t from below 0 to above 1.
GradientInputs == [t : (0 - 1)..(StopMax + 1), c : [1..4 -> Palette], st : StopLists]

\* Scenario B of the specification: red, green, blue, white at evenly spaced stops.
ScenarioB ==
  [t |-> 0, c |-> <<<<1, 0, 0>>, <<0, 1, 0>>, <<0, 0, 1>>, <<1, 1, 1>>>>,
   st |-> [i \in 1..4 |-> ((i - 1) * StopMax) \div 3]]

MathInit(inputs) ==
  /\ bsIn \in inputs
  /\ bsOut = NotEvaluated

\* A fragment evaluates the gradient for its parameter t.
EvalGradient ==
  /\ ~bsOut.evaluated
  /\ bsOut' = bsplineGradient(bsIn.t, bsIn.c, bsIn.st)
  /\ UNCHANGED <<bsIn, shIn, shOut, pipeVars, compVars, sizeVars, loopVars, animVars, glowVars, settingsVars>>

(***************************************************************************)
(* Pill.js and GlowPlane.js: the gradient parameter of a pill fragment and *)
(* of a glow fragment.  Lengths are integers; a gradient parameter is a    *)
(* fraction num / den; the bend is a multiple of 1 / StopMax; normalLocal.z *)
(* is 0 at the silhouette and 1 where the surface faces the viewer.        *)
(***************************************************************************)

\* createCapsuleGeometry and computeBoundingBox: the hemispheres of the given
\* radius are moved to +halfLength and -halfLength, and boundsMin, boundsMax
\* are the least and greatest y of the merged geometry.
CapsuleBounds(radius, length) ==
  LET halfLength == length \div 2
  IN [boundsMin |-> 0 - halfLength - radius, boundsMax |-> halfLength + radius]

\* Pill.js: yNorm = (positionLocal.y - boundsMin) / (boundsMax - boundsMin),
\* edgeFactor = 1 - normalLocal.z, t = clamp(yNorm + edgeFactor * bend, 0, 1).
PillGradientParameter(in) ==
  LET b == CapsuleBounds(in.radius, in.length)
      yNum == in.y - b.boundsMin
      yDen == b.boundsMax - b.boundsMin
      edgeFactor == 1 - in.nz
      tRaw == yNum * StopMax + edgeFactor * in.bend * yDen
  IN [num |-> clamp(tRaw, 0, yDen * StopMax), den |-> yDen * StopMax]

\* GlowPlane.js with yNorm = positionLocal.y / pillHeight.
GlowGradientParameterNoOffset(in) ==
  LET pillHeight == in.length + in.radius * 2
      tBent == in.y * StopMax + in.bend * pillHeight
  IN [num |-> clamp(tBent, 0, pillHeight * StopMax), den |-> pillHeight * StopMax]

\* GlowPlane.js: pillHeight = length + radius * 2, pillHalfHeight =
\* pillHeight / 2, yNorm = (positionLocal.y + pillHalfHeight) / pillHeight,
\* t = clamp(yNorm + bend, 0, 1); over the denominator 2 * pillHeight.
GlowGradientParameter(in) ==
  LET pillHeight == in.length + in.radius * 2
      yNum == 2 * in.y + pillHeight
      yDen == 2 * pillHeight
      tBent == yNum * StopMax + in.bend * yDen
  IN [num |-> clamp(tBent, 0, yDen * StopMax), den |-> yDen * StopMax]

\* bsplineGradient(t, vec3(u.color1), ..., u.stop1, ...) for t = num / den:
\* parameter and stops over the common denominator den (stops are multiples
\* of 1 / StopMax, and StopMax divides den).
GradientColor(t, c, st) ==
  bsplineGradient(t.num, c, [i \in 1..4 |-> st[i] * (t.den \div StopMax)]).value

\* The left pill of the duo scene, reduced to integer sizes, at its centre.
DuoFragment ==
  [radius |-> 1, length |-> 4, y |-> 0, nz |-> 0, bend |-> 1,
   c |-> ScenarioB.c, st |-> ScenarioB.st]

\* Fragments at every height of the glow plane's span over pills of two radii
\* and two lengths, at the silhouette and facing the viewer, for every bend
\* of the slider's range -1..1.
ShadeInputs ==
  [radius : {1, 2}, length : {2, 4}, y : (0 - 5)..5, nz : {0, 1},
   bend : (0 - StopMax)..StopMax,
   c : {ScenarioB.c, [i \in 1..4 |-> ScenarioB.c[5 - i]]},
   st : {ScenarioB.st}]

ShadeInit(inputs) ==
  /\ shIn \in inputs
  /\ shOut = NotEvaluated

\* The two materials shade their fragment: both read the colours and stops of
\* pill.uniforms (const u = pill.uniforms in GlowPlane.js).
ShadeFragment ==
  /\ ~shOut.evaluated
  /\ shOut' =
       [evaluated |-> TRUE,
        pillT |-> PillGradientParameter(shIn),
        glowT |-> GlowGradientParameter(shIn),
        pillColor |-> GradientColor(PillGradientParameter(shIn), shIn.c, shIn.st),
        glowColor |-> GradientColor(GlowGradientParameter(shIn), shIn.c, shIn.st)]
  /\ UNCHANGED <<shIn, bsIn, bsOut, pipeVars, compVars, sizeVars, loopVars, animVars, glowVars, settingsVars>>

(***************************************************************************)
(* Pills, their glow planes and the uniforms both shaders read (Pill.js,   *)
(* GlowPlane.js, scenes.js, gui.js).  A pill is named <<scene, index>>; a  *)
(* glow plane is named after the pill whose constructor created it; which  *)
(* plane a pill refers to and which pill a plane refers to are fields.     *)
(* Uniform values are in thousandths, angles in thousandths of a radian.   *)
(***************************************************************************)
Fields == {"bend", "waveAmp", "waveFreq", "wavePhase", "waveRotation"}

\* No object: the pills are not built yet.
NoObject == <<"none", 0>>

\* bend, waveAmp, waveFreq, wavePhase, waveRotation of a new Pill.
PillUniforms ==
  [bend |-> 300, waveAmp |-> 0, waveFreq |-> 800, wavePhase |-> 0, waveRotation |-> 0]

\* A glow plane whose shader reads the uniforms of the first pill of the scene.
GlowPlaneOfFirstPill(pill) == [pill |-> pill, u |-> <<SceneOf(pill), 1>>]

\* new GlowPlane(pill): this.pill = pill; const u = pill.uniforms, the
\* uniform nodes of the pill themselves.
GlowPlane(pill) == [pill |-> pill, u |-> pill]

\* const ROTATION_Z = -0.5
ROTATION_Z == 0 - 500

duoBends == <<614, 0 - 300>>

gridBends ==
  <<0 - 272, 0 - 730, 0 - 170, 0 - 730, 440, 0 - 68, 606, 0 - 552, 300, 0 - 628,
    0 - 782, 0 - 654>>

\* allBends[Math.floor(Math.random() * allBends.length)]: the bends drawn for
\* the pills of the tubes scene.
TubeBends == {gridBends[1]}

\* pill.uniforms.bend.value = ... in the scene builders; r: the random draws.
BuilderBend(p, r) ==
  CASE SceneOf(p) = "mono" -> duoBends[1]
    [] SceneOf(p) = "duo" -> duoBends[p[2]]
    [] SceneOf(p) = "grid" -> gridBends[p[2]]
    [] SceneOf(p) = "tubes" -> r[p]

\* Before initApp no pill exists.
\* Positions are triples <<x, y, z>> in tenths of a world unit.  Before the
\* builders run there are no meshes.
NoPosition == [mesh |-> <<0, 0, 0>>, glow |-> <<0, 0, 0>>]

\* new Pill(...): the mesh sits at the origin; new GlowPlane(pill) ends with
\* this.mesh.position.z = -0.1.
NewPillPosition == [mesh |-> <<0, 0, 0>>, glow |-> <<0, 0, 0 - 1>>]

\* Pill.setPosition(x, y, z = 0): this.mesh.position.set(x, y, z) and
\* this.glowPlane.mesh.position.set(x, y, z).
PillSetPosition(pos, x, y, z) == [mesh |-> <<x, y, z>>, glow |-> <<x, y, z>>]

\* The x and y a scene builder passes to setPosition.  buildDuoScene passes
\* (-PILL_RADIUS, 2) and (PILL_RADIUS, -2), buildMonoScene (0, 0),
\* buildGridScene (0, topPillY) and (0, botPillY), buildTubesScene the
\* column's x and the row's y; the computed values of the grid and the tubes
\* are kept as one value per pill index.
BuilderX(p) ==
  CASE SceneOf(p) = "duo" -> IF p[2] = 1 THEN 0 - 8 ELSE 8
    [] SceneOf(p) = "tubes" -> 13
    [] OTHER -> 0

BuilderY(p) ==
  CASE SceneOf(p) = "duo" -> IF p[2] = 1 THEN 20 ELSE 0 - 20
    [] SceneOf(p) = "grid" -> IF p[2] % 2 = 1 THEN 50 ELSE 0 - 50
    [] SceneOf(p) = "tubes" -> 10 * p[2]
    [] OTHER -> 0

\* No builder passes a z but buildTubesScene, which passes 0.
BuiltPosition(p) == PillSetPosition(NewPillPosition, BuilderX(p), BuilderY(p), 0)

OFF_SCREEN == 200

\* The y an animation gives a pill and its glow plane at phase ph: the duo
\* and grid timelines start OFF_SCREEN away from the rest position and slide
\* to it, the tubes tween adds to y.
AnimatedY(p, ph) ==
  CASE SceneOf(p) = "tubes" -> BuilderY(p) + 10 * ph
    [] ph = 0 -> BuilderY(p) + (IF p[2] % 2 = 1 THEN OFF_SCREEN ELSE 0 - OFF_SCREEN)
    [] OTHER -> BuilderY(p)

\* timeline.set / gsap.to on [pill.mesh.position, glow.mesh.position] with
\* { y }: the y of both vectors, nothing else.
SetY(pos, y) ==
  [mesh |-> <<pos.mesh[1], y, pos.mesh[3]>>, glow |-> <<pos.glow[1], y, pos.glow[3]>>]

\* The positions after the animations of the scenes in moved took phase ph[s].
AnimatePositions(pos, moved, ph) ==
  [p \in AllPills |->
    IF SceneOf(p) \in moved THEN SetY(pos[p], AnimatedY(p, ph[SceneOf(p)])) ELSE pos[p]]

GlowInit ==
  /\ glowPlane = [p \in AllPills |-> NoObject]
  /\ planes = [g \in AllPills |-> [pill |-> NoObject, u |-> NoObject]]
  /\ uniformValue = [p \in AllPills |-> [f \in Fields |-> 0]]
  /\ groupRotation = ROTATION_Z
  /\ position = [p \in AllPills |-> NoPosition]

\* edgeWidth of a new Pill, glowIntensity and glowFalloff of a new GlowPlane;
\* createTubesAnimation sets the glow intensity of its pills to 0.
BuiltSettings(p) ==
  [edgeWidth |-> 600, glowIntensity |-> IF SceneOf(p) = "tubes" THEN 0 ELSE 500,
   glowFalloff |-> 1500]

\* The pills and glow planes made by the scene builders: each Pill constructor
\* makes its uniforms and its glow plane; the builder sets the bend, buildScene
\* the wave rotation, createTubesAnimation the wave amplitude.
BuildPills ==
  \E r \in [Range(ScenePills("tubes")) -> TubeBends] :
    /\ glowPlane' = [p \in AllPills |-> p]
    /\ pillSettings' = [p \in AllPills |-> BuiltSettings(p)]
    /\ planes' = [g \in AllPills |-> GlowPlane(g)]
    /\ position' = [p \in AllPills |-> BuiltPosition(p)]
    /\ uniformValue' =
         [p \in AllPills |->
           [PillUniforms EXCEPT !.bend = BuilderBend(p, r),
                                !.waveRotation = groupRotation,
                                !.waveAmp = IF SceneOf(p) = "tubes" THEN 900 ELSE 0]]

\* pills.forEach((pill) => (pill.uniforms[f].value = v))
SetUniform(uv, list, f, v) ==
  [p \in AllPills |-> IF p \in Range(list) THEN [uv[p] EXCEPT ![f] = v] ELSE uv[p]]

\* scenePresets[s].rotation, glowFalloff, glowIntensity and waveAmp.
PresetRotation(s) ==
  CASE s = "mono" -> 0
    [] s = "grid" -> 19
    [] s = "duo" -> 331

PresetGlowFalloff(s) == IF s = "grid" THEN 5000 ELSE 1500

PresetGlowIntensity(s) == IF s = "grid" THEN 300 ELSE 500

PresetWaveAmp(s) == 0

\* (v / 360) * Math.PI * 2, in thousandths of a radian, rounded.
Radians(deg) == (deg * 62832 + 1800) \div 3600

\* (preset.rotation / 360) * Math.PI * 2
PresetAngle(s) == Radians(PresetRotation(s))

\* gui.applySceneSettings(s), called with the pills of s current.
ApplySceneUniforms(s) ==
  IF HasPreset(s)
    THEN SetUniform(SetUniform(uniformValue, ScenePills(s), "waveRotation", PresetAngle(s)),
                    ScenePills(s), "waveAmp", PresetWaveAmp(s))
    ELSE uniformValue

\* The values createGUI shows at first: rotationParams (ROTATION_Z in degrees,
\* rounded), noiseParams, colorParams, edgesParams, glowParams, waveParams.
GuiDefaults ==
  [rotation |-> 0 - 29, noise |-> 4, edgeWidth |-> 500, strength |-> 1500,
   radius |-> 500, edgesVisible |-> 1, glowVisible |-> 1, intensity |-> 500,
   falloff |-> 1500, amp |-> 0, freq |-> 800, phase |-> 0]

\* waveParams.amp, .freq, .phase: the parameter shown for a wave uniform.
GuiWaveParam(f) ==
  CASE f = "waveAmp" -> "amp"
    [] f = "waveFreq" -> "freq"
    [] f = "wavePhase" -> "phase"

\* After createGUI: no pill exists, applyDefaults has written the compositor.
SettingsInit ==
  /\ gui = GuiDefaults
  /\ pillSettings = [p \in AllPills |-> [edgeWidth |-> 0, glowIntensity |-> 0, glowFalloff |-> 0]]
  /\ bloom = [strength |-> 1500, radius |-> 500]

\* pills().forEach(...) on a field of pillSettings.
SetSetting(ps, list, f, v) ==
  [p \in AllPills |-> IF p \in Range(list) THEN [ps[p] EXCEPT ![f] = v] ELSE ps[p]]

\* gui.applySceneSettings(s): the parameters shown after it.
ApplySceneGui(s) ==
  IF HasPreset(s)
    THEN [gui EXCEPT !.rotation = PresetRotation(s), !.falloff = PresetGlowFalloff(s),
                     !.amp = PresetWaveAmp(s), !.intensity = PresetGlowIntensity(s)]
    ELSE gui

\* gui.applySceneSettings(s): glowFalloff and glowIntensity of the pills of s.
ApplySceneSettings(s) ==
  IF HasPreset(s)
    THEN SetSetting(SetSetting(pillSettings, ScenePills(s), "glowFalloff", PresetGlowFalloff(s)),
                    ScenePills(s), "glowIntensity", PresetGlowIntensity(s))
    ELSE pillSettings

(***************************************************************************)
(* main.js: start-up, the render loop and the scene switch.                *)
(***************************************************************************)
\* renderer.init() resolves: initApp sets the opacity to 0, builds the scenes,
\* shows every container and renders the shader-compilation frame with all pills.
InitApp ==
  /\ phase = "booting"
  /\ pc = "idle"
  /\ frameNo = 0
  /\ cfg' = [cfg EXCEPT !.opacity = 0]
  /\ output' = NotEvaluated
  /\ BuildAllScenes
  /\ BuildPills
  /\ containerVisible' = [s \in Scenes |-> TRUE]
  /\ BeginRender(AllPillsSeq, 2, GlowPlanesOf(glowPlane', AllPillsSeq), "init")
  /\ UNCHANGED <<phase, pillVisible, currentSceneName, overrideMaterial, colorTarget,
                 maskTarget, glowTarget, screen, savedEdgeGlow,
                 failures, loading, events>>
  /\ UNCHANGED <<texel, sizeVars, loopVars, mathVars, groupRotation, gui, bloom>>

\* renderer.init() rejects.
InitReject ==
  /\ phase = "booting"
  /\ pc = "idle"
  /\ frameNo = 0
  /\ phase' = "fatal"
  /\ loading' = "WebGPU not supported."
  /\ UNCHANGED <<pc, mode, args, edgeGlow, pillVisible, planeVisible,
                 containerVisible, currentSceneName, overrideMaterial, renderTarget,
                 colorTarget, maskTarget, glowTarget, screen, writes,
                 entry, savedEdgeGlow, frameNo, failures, events>>
  /\ UNCHANGED <<compVars, auxVars>>

\* loop -> animate -> postFX.render(getCurrentPills(), savedEdgeGlow, getGlowPlanes())
LoopFrame ==
  /\ phase = "running"
  /\ pc = "idle"
  /\ BeginRender(getCurrentPills, savedEdgeGlow, getGlowPlanes, "sync")
  /\ UNCHANGED <<phase, pillVisible, containerVisible, currentSceneName,
                 overrideMaterial, colorTarget, maskTarget, glowTarget, screen, savedEdgeGlow, failures, loading, events>>
  /\ UNCHANGED <<compVars, auxVars>>

\* The same frame run by a caller that awaits postFX.renderAsync(...).
AsyncFrame ==
  /\ phase = "running"
  /\ pc = "idle"
  /\ BeginRender(getCurrentPills, savedEdgeGlow, getGlowPlanes, "async")
  /\ UNCHANGED <<phase, pillVisible, containerVisible, currentSceneName,
                 overrideMaterial, colorTarget, maskTarget, glowTarget, screen, savedEdgeGlow, failures, loading, events>>
  /\ UNCHANGED <<compVars, auxVars>>

\* Event handlers run between frames, and at the awaits of renderAsync.
HandlersMayRun == pc = "idle" \/ (mode = "async" /\ pc \in DonePositions)

\* goToScene / playNextScene / the scene selector: switchScene(s), then
\* gui.applySceneSettings(s).
GoToScene(s) ==
  /\ phase = "running"
  /\ HandlersMayRun
  /\ events < MaxEvents
  /\ events' = events + 1
  /\ s # currentSceneName
  /\ containerVisible' = [x \in Scenes |-> x = s]
  /\ currentSceneName' = s
  /\ SwitchAnimations(s)
  /\ cfg' = [cfg EXCEPT !.opacity = 0]
  /\ output' = NotEvaluated
  /\ uniformValue' = ApplySceneUniforms(s)
  /\ gui' = ApplySceneGui(s)
  /\ pillSettings' = ApplySceneSettings(s)
  /\ groupRotation' = IF HasPreset(s) THEN PresetAngle(s) ELSE groupRotation
  /\ position' = AnimatePositions(position, {s} \cap {x \in Scenes : Animated(x)}, sceneInputs')
  /\ savedEdgeGlow' = IF HasPreset(s) THEN PresetEdgeGlow(s) ELSE savedEdgeGlow
  /\ UNCHANGED <<phase, pc, mode, args, edgeGlow, pillVisible, planeVisible,
                 overrideMaterial, renderTarget, colorTarget, maskTarget, glowTarget, screen, writes, entry, frameNo, failures, loading>>
  /\ UNCHANGED <<texel, sizeVars, loopVars, mathVars, glowPlane, planes, bloom>>

\* The gsap ticker: every playing animation advances the positions of its
\* scene's pills and glow planes and the scale of its container.
Tick ==
  /\ HandlersMayRun
  /\ \E s \in Scenes : Advancing(s)
  /\ sceneInputs' =
       [s \in Scenes |->
         IF Advancing(s) THEN (sceneInputs[s] + 1) % AnimPhases ELSE sceneInputs[s]]
  /\ position' = AnimatePositions(position, {s \in Scenes : Advancing(s)}, sceneInputs')
  /\ UNCHANGED <<builderPlaying, animationPlaying>>
  /\ UNCHANGED <<pipeVars, compVars, sizeVars, loopVars, mathVars, settingsVars>>
  /\ UNCHANGED <<glowPlane, planes, uniformValue, groupRotation>>

\* The "pause animation" toggle: stopAnimation() or startAnimation().
PauseToggle(paused) ==
  /\ HandlersMayRun
  /\ currentSceneName # "null"
  /\ animationPlaying[currentSceneName] = paused
  /\ animationPlaying' = [animationPlaying EXCEPT ![currentSceneName] = ~paused]
  /\ UNCHANGED <<builderPlaying, sceneInputs>>
  /\ UNCHANGED <<pipeVars, compVars, sizeVars, loopVars, mathVars, glowVars, settingsVars>>

\* The "edge glow" slider: savedEdgeGlow = v.
EdgeGlowChange(v) ==
  /\ HandlersMayRun
  /\ events < MaxEvents
  /\ events' = events + 1
  /\ v # savedEdgeGlow
  /\ savedEdgeGlow' = v
  /\ UNCHANGED <<phase, pc, mode, args, edgeGlow, pillVisible, planeVisible,
                 containerVisible, currentSceneName, overrideMaterial, renderTarget,
                 colorTarget, maskTarget, glowTarget, screen, writes,
                 entry, frameNo, failures, loading>>
  /\ UNCHANGED <<compVars, auxVars>>

\* Values the bend, wave and rotation sliders are moved to.
BendSlider == {0 - 1000}

WaveSlider == {500}

\* The rotation slider is in degrees.
RotationSlider == {180}

\* The "bend" slider: getSelectedPill().uniforms.bend.value = v, for the pill
\* pills()[selectedPillIndex] of the current scene.
BendChange(i, v) ==
  /\ HandlersMayRun
  /\ events < MaxEvents
  /\ events' = events + 1
  /\ i \in 1..Len(getCurrentPills)
  /\ uniformValue' = SetUniform(uniformValue, <<getCurrentPills[i]>>, "bend", v)
  /\ UNCHANGED <<phase, pc, mode, args, edgeGlow, pillVisible, planeVisible,
                 containerVisible, currentSceneName, overrideMaterial, renderTarget,
                 colorTarget, maskTarget, glowTarget, screen, writes,
                 entry, savedEdgeGlow, frameNo, failures, loading>>
  /\ UNCHANGED <<compVars, sizeVars, loopVars, animVars, mathVars, glowPlane, planes, groupRotation, position, settingsVars>>

\* The "amplitude", "frequency" and "phase" sliders of the Wave folder:
\* pills().forEach((pill) => (pill.uniforms[f].value = v)).
WaveChange(f, v) ==
  /\ HandlersMayRun
  /\ events < MaxEvents
  /\ events' = events + 1
  /\ gui' = [gui EXCEPT ![GuiWaveParam(f)] = v]
  /\ uniformValue' = SetUniform(uniformValue, getCurrentPills, f, v)
  /\ UNCHANGED <<phase, pc, mode, args, edgeGlow, pillVisible, planeVisible,
                 containerVisible, currentSceneName, overrideMaterial, renderTarget,
                 colorTarget, maskTarget, glowTarget, screen, writes,
                 entry, savedEdgeGlow, frameNo, failures, loading>>
  /\ UNCHANGED <<compVars, sizeVars, loopVars, animVars, mathVars, glowPlane, planes, groupRotation, position, pillSettings, bloom>>

\* The "rotation" slider: the wave rotation of the current pills follows the
\* rotation of the pill group.
RotationChange(v) ==
  /\ HandlersMayRun
  /\ events < MaxEvents
  /\ events' = events + 1
  /\ gui' = [gui EXCEPT !.rotation = v]
  /\ groupRotation' = Radians(v)
  /\ uniformValue' = SetUniform(uniformValue, getCurrentPills, "waveRotation", Radians(v))
  /\ UNCHANGED <<phase, pc, mode, args, edgeGlow, pillVisible, planeVisible,
                 containerVisible, currentSceneName, overrideMaterial, renderTarget,
                 colorTarget, maskTarget, glowTarget, screen, writes,
                 entry, savedEdgeGlow, frameNo, failures, loading>>
  /\ UNCHANGED <<compVars, sizeVars, loopVars, animVars, mathVars, glowPlane, planes, position, pillSettings, bloom>>

\* Values the edge-width, bloom and glow sliders are moved to.
EdgeWidthSlider == {1000}

BloomStrengthSlider == {3000}

BloomRadiusSlider == {1000}

GlowIntensitySlider == {2000}

GlowFalloffSlider == {500}

\* A handler of a GUI control runs; it touches nothing of the frame pipeline.
GuiHandler ==
  /\ HandlersMayRun
  /\ events < MaxEvents
  /\ events' = events + 1
  /\ UNCHANGED <<phase, pc, mode, args, edgeGlow, pillVisible, planeVisible,
                 containerVisible, currentSceneName, overrideMaterial, renderTarget,
                 colorTarget, maskTarget, glowTarget, screen, writes,
                 entry, savedEdgeGlow, frameNo, failures, loading>>
  /\ UNCHANGED <<compVars, sizeVars, loopVars, animVars, mathVars, glowVars>>

\* The "edge width" slider: pills().forEach(... uniforms.edgeWidth.value = v).
EdgeWidthChange(v) ==
  /\ GuiHandler
  /\ gui' = [gui EXCEPT !.edgeWidth = v]
  /\ pillSettings' = SetSetting(pillSettings, getCurrentPills, "edgeWidth", v)
  /\ UNCHANGED bloom

\* The "bloom strength" slider: postFX.edgesPass.strength.value = v.
BloomStrengthChange(v) ==
  /\ GuiHandler
  /\ gui' = [gui EXCEPT !.strength = v]
  /\ bloom' = [bloom EXCEPT !.strength = v]
  /\ UNCHANGED pillSettings

\* The "bloom radius" slider: postFX.edgesPass.radius.value = v.
BloomRadiusChange(v) ==
  /\ GuiHandler
  /\ gui' = [gui EXCEPT !.radius = v]
  /\ bloom' = [bloom EXCEPT !.radius = v]
  /\ UNCHANGED pillSettings

\* The "intensity" slider of the Glow folder.
GlowIntensityChange(v) ==
  /\ GuiHandler
  /\ gui' = [gui EXCEPT !.intensity = v]
  /\ pillSettings' = SetSetting(pillSettings, getCurrentPills, "glowIntensity", v)
  /\ UNCHANGED bloom

\* The "falloff" slider of the Glow folder.
GlowFalloffChange(v) ==
  /\ GuiHandler
  /\ gui' = [gui EXCEPT !.falloff = v]
  /\ pillSettings' = SetSetting(pillSettings, getCurrentPills, "glowFalloff", v)
  /\ UNCHANGED bloom

\* The window changes and its resize event runs main.js's resize(), which ends
\* with postFX.resize().
WindowResize(win) ==
  /\ HandlersMayRun
  /\ events < MaxEvents
  /\ events' = events + 1
  /\ win # window
  /\ window' = win
  /\ targets' = PostFXResize(targets, win)
  /\ UNCHANGED <<phase, pc, mode, args, edgeGlow, pillVisible, planeVisible,
                 containerVisible, currentSceneName, overrideMaterial, renderTarget,
                 colorTarget, maskTarget, glowTarget, screen, writes,
                 entry, savedEdgeGlow, frameNo, failures, loading>>
  /\ UNCHANGED <<compVars, loopVars, animVars, mathVars, glowVars, settingsVars>>

\* A resize event with the window as it was: resize() runs again.
Resize ==
  /\ HandlersMayRun
  /\ events < MaxEvents
  /\ events' = events + 1
  /\ targets' = PostFXResize(targets, window)
  /\ UNCHANGED <<phase, pc, mode, args, edgeGlow, pillVisible, planeVisible,
                 containerVisible, currentSceneName, overrideMaterial, renderTarget,
                 colorTarget, maskTarget, glowTarget, screen, writes,
                 entry, savedEdgeGlow, frameNo, failures, loading>>
  /\ UNCHANGED <<compVars, window, loopVars, animVars, mathVars, glowVars, settingsVars>>

(***************************************************************************)
(* The frame limiter of main.js.  Times are in thirds of the frame         *)
(* interval 1000 / 60 ms.                                                  *)
(***************************************************************************)
\* const frameInterval = 1000 / targetFPS
frameInterval == 3

\* let lastFrameTime = 0; no callback has run.
LoopInit ==
  /\ now = 0
  /\ lastFrameTime = 0
  /\ lastRenderTime = -1

\* lastFrameTime = currentTime, without the remainder.
NextFrameTimeUnaligned(currentTime, delta) == currentTime

\* lastFrameTime = currentTime - (delta % frameInterval)
NextFrameTime(currentTime, delta) == currentTime - (delta % frameInterval)

\* loop(currentTime): the next callback is requested, and animate() runs when
\* at least one frame interval has passed since lastFrameTime.
LoopCallback(currentTime) ==
  /\ phase = "running"
  /\ pc = "idle"
  /\ currentTime > now
  /\ currentTime <= MaxTime
  /\ now' = currentTime
  /\ LET delta == currentTime - lastFrameTime
     IN IF delta >= frameInterval
        THEN /\ lastFrameTime' = NextFrameTime(currentTime, delta)
             /\ lastRenderTime' = currentTime
             /\ BeginRender(getCurrentPills, savedEdgeGlow, getGlowPlanes, "sync")
             /\ UNCHANGED <<phase, pillVisible, containerVisible, currentSceneName,
                            overrideMaterial, colorTarget, maskTarget, glowTarget,
                            screen, savedEdgeGlow, failures, loading, events>>
        ELSE UNCHANGED <<lastFrameTime, lastRenderTime, pipeVars>>
  /\ UNCHANGED <<compVars, sizeVars, animVars, mathVars, glowVars, settingsVars>>

(***************************************************************************)
(* The output node built in the PostFX constructor, for one pixel and one  *)
(* colour channel.  Texel values and the opacity are in units of 1/Unit,   *)
(* the noise sample in units of 1/(2 Unit), the noise strength is in       *)
(* hundredths, the visibility uniforms are 0 or 1.  t is the texel, c the  *)
(* uniforms.                                                               *)
(***************************************************************************)
Views == {"final", "mask", "edges", "color", "glow"}

\* viewMap with the mask and edges entries exchanged.
viewMapSwapped(v) ==
  CASE v = "final" -> 0
    [] v = "mask" -> 2
    [] v = "edges" -> 1
    [] v = "color" -> 3
    [] v = "glow" -> 4

\* viewMap of createGUI.
viewMap(v) ==
  CASE v = "final" -> 0
    [] v = "mask" -> 1
    [] v = "edges" -> 2
    [] v = "color" -> 3
    [] v = "glow" -> 4

\* Values the "sensor noise" slider (range 0..0.1) is moved to.
NoiseSlider == {0, 10}

\* invertedMask without the inversion.
invertedMaskPlain(t) == t.mask

\* sub(float(1.0), maskTexture.r)
invertedMask(t) == Unit - t.mask

\* glowTexture.mul(invertedMask).mul(this.glowVisible), in units of 1/Unit^2.
maskedGlow(t, c) == t.glow * invertedMask(t) * c.glowVisible

\* this.edgesPass.mul(invertedMask).mul(this.edgesVisible), in units of 1/Unit^2.
maskedEdges(t, c) == t.edges * invertedMask(t) * c.edgesVisible

\* colorTexture.mul(maskTexture.r).add(maskedEdges).add(maskedGlow)
finalComposite(t, c) == t.color * t.mask + maskedEdges(t, c) + maskedGlow(t, c)

\* noiseOffset without the strength factor.
noiseOffsetUnscaled(t, c) == t.noise - Unit

\* mul(sub(noise, float(0.5)), this.noiseStrength), in units of 1/(200 * Unit).
noiseOffset(t, c) == (t.noise - Unit) * c.noiseStrength

\* finalComposite.add(noiseOffset), in units of 1/(200 * Unit^2).
finalWithNoise(t, c) == 200 * finalComposite(t, c) + Unit * noiseOffset(t, c)

\* finalOutput with the noise added after the fade instead of before it.
finalOutputNoiseAfterFade(t, c) ==
  200 * finalComposite(t, c) * c.opacity + Unit * Unit * noiseOffset(t, c)

\* finalWithNoise.mul(opacity).add(fadeColor.mul(sub(float(1), opacity))) with
\* fadeColor black, in units of 1/(200 * Unit^3).
finalOutput(t, c) == finalWithNoise(t, c) * c.opacity + 0 * (Unit - c.opacity)

\* A sampled texture value in the units of finalOutput.
Raw(x) == x * 200 * Unit * Unit

\* The nested select on debugViewUniform.lessThan(0.5), (1.5), (2.5), (3.5).
debugOutput(t, c) ==
  IF 2 * c.debugViewUniform < 1 THEN finalOutput(t, c)
  ELSE IF 2 * c.debugViewUniform < 3 THEN Raw(t.mask)
  ELSE IF 2 * c.debugViewUniform < 5 THEN Raw(t.edges)
  ELSE IF 2 * c.debugViewUniform < 7 THEN Raw(t.color)
  ELSE Raw(t.glow)

Texels ==
  [color : 0..Unit, mask : 0..Unit, edges : 0..Unit, glow : 0..Unit,
   noise : 0..(2 * Unit - 1)]

(***************************************************************************)
(* What the passes store for a scene of one pill: the colour node and the  *)
(* emissive node of Pill.js, the colour and opacity nodes of GlowPlane.js  *)
(* and the textures they end in.  A gradient channel, a falloff and a hash *)
(* sample are in the units of the texel; intensities are in thousandths.   *)
(***************************************************************************)

\* Scenario A of the specification: four black colours, edge glow and glow
\* intensity 0.
ScenarioA ==
  [c |-> [i \in 1..4 |-> <<0, 0, 0>>], st |-> ScenarioB.st,
   edgeGlow |-> 0, glowIntensity |-> 0]

\* One channel of bsplineGradient(t, ...) in units of 1/Unit.
GradientChannel(t, c, st) ==
  LET v == bsplineGradient(t, c, st).value
  IN (Unit * v.num[1]) \div v.den

\* Pill.js: colorNode = gradientColor * baseColor, baseColor = uniform(1.0).
colorNode(gradient) == gradient * 1

\* Pill.js: emissiveNode = gradientColor * (edgeFalloff * edgeGlow), in units
\* of 1/(2 Unit^2) for an edge glow in halves.
emissiveNode(gradient, edgeFalloff, eg) == gradient * (edgeFalloff * eg)

\* GlowPlane.js: ditherStrength = uniform(0.02), in hundredths.
ditherStrength == 2

\* GlowPlane.js: dither = (hash(positionLocal) - 0.5) * ditherStrength, in
\* units of 1/(200 Unit) for a hash sample h in units of 1/(2 Unit).
dither(h) == (h - Unit) * ditherStrength

\* GlowPlane.js: glowColor = gradientColor * (falloff * glowIntensity),
\* colorNode = glowColor + dither over 1000 Unit^2, and
\* opacityNode = falloff * glowIntensity + dither * 0.5 over 2000 Unit.
GlowFragment(gradient, falloff, intensity, h) ==
  [color |-> gradient * (falloff * intensity) + 5 * Unit * dither(h),
   colorDen |-> 1000 * Unit * Unit,
   opacity |-> 2 * (falloff * intensity) + 5 * dither(h),
   opacityDen |-> 2000 * Unit]

\* The glow pass draws the plane with THREE.AdditiveBlending over the black
\* background into glowTarget, which new THREE.RenderTarget(w, h) makes with
\* 8 bits per channel: colour and opacity are clamped to 0..1, their product
\* is added to 0 and rounded to a level of 0..255.
GlowLevel(frag) ==
  LET col == clamp(frag.color, 0, frag.colorDen)
      a == clamp(frag.opacity, 0, frag.opacityDen)
      den == frag.colorDen * frag.opacityDen
  IN (2 * 255 * col * a + den) \div (2 * den)

\* The glow texture's sample for a stored level, in units of 1/Unit.
GlowSample(level) == (Unit * level) \div 255

\* emissiveOnly = scenePassColor - colorTexture for a scene pass that drew the
\* pill's colour plus its emissive.
emissiveOnlyOf(color, emissive) == (color + emissive) - color

\* bloom(emissiveOnly) where the emissive image is e at every pixel: the
\* blurred mips of a uniform image are that image, scaled by the strength;
\* for a black image the result is black.
BloomOfUniform(e) == IF e = 0 THEN 0 ELSE Unit

\* The texels the passes can give the output node in Scenario A, at every
\* gradient parameter, edge falloff, glow falloff, coverage and hash sample.
ScenarioATexels ==
  {t \in Texels :
     \E g \in {GradientChannel(x, ScenarioA.c, ScenarioA.st) : x \in 0..StopMax} :
       /\ t.color = colorNode(g)
       /\ \E ef \in 0..Unit :
            t.edges =
              BloomOfUniform(emissiveOnlyOf(colorNode(g),
                                            emissiveNode(g, ef, ScenarioA.edgeGlow)))
       /\ \E f \in 0..Unit, h \in 0..(2 * Unit - 1) :
            t.glow = GlowSample(GlowLevel(GlowFragment(g, f, ScenarioA.glowIntensity, h)))}

\* The uniforms after the PostFX constructor and applyDefaults of createGUI.
CompDefaults ==
  /\ cfg = [view |-> "final", debugViewUniform |-> 0, noiseStrength |-> 4,
            glowVisible |-> 1, edgesVisible |-> 1, opacity |-> Unit]
  /\ output = NotEvaluated

CompInit ==
  /\ texel \in Texels
  /\ CompDefaults

\* The "debug view" control: postFX.debugViewUniform.value = viewMap[v].
DebugViewChange(v) ==
  /\ v # cfg.view
  /\ cfg' = [cfg EXCEPT !.view = v, !.debugViewUniform = viewMap(v)]
  /\ output' = NotEvaluated
  /\ UNCHANGED <<texel, pipeVars, auxVars>>

\* The "sensor noise" control.
NoiseChange(v) ==
  /\ HandlersMayRun
  /\ v # cfg.noiseStrength
  /\ gui' = [gui EXCEPT !.noise = v]
  /\ cfg' = [cfg EXCEPT !.noiseStrength = v]
  /\ output' = NotEvaluated
  /\ UNCHANGED <<texel, pipeVars, sizeVars, loopVars, animVars, mathVars, glowVars, pillSettings, bloom>>

\* The "visible" toggle of the Edges folder.
EdgesVisibleChange(b) ==
  /\ cfg' = [cfg EXCEPT !.edgesVisible = IF b THEN 1 ELSE 0]
  /\ cfg' # cfg
  /\ HandlersMayRun
  /\ gui' = [gui EXCEPT !.edgesVisible = IF b THEN 1 ELSE 0]
  /\ output' = NotEvaluated
  /\ UNCHANGED <<texel, pipeVars, sizeVars, loopVars, animVars, mathVars, glowVars, pillSettings, bloom>>

\* The "visible" toggle of the Glow folder.
GlowVisibleChange(b) ==
  /\ cfg' = [cfg EXCEPT !.glowVisible = IF b THEN 1 ELSE 0]
  /\ cfg' # cfg
  /\ HandlersMayRun
  /\ gui' = [gui EXCEPT !.glowVisible = IF b THEN 1 ELSE 0]
  /\ output' = NotEvaluated
  /\ UNCHANGED <<texel, pipeVars, sizeVars, loopVars, animVars, mathVars, glowVars, pillSettings, bloom>>

\* postFX.opacity.value written by initApp and by the fades of gsap.
OpacityChange(o) ==
  /\ o # cfg.opacity
  /\ cfg' = [cfg EXCEPT !.opacity = o]
  /\ output' = NotEvaluated
  /\ UNCHANGED <<texel, pipeVars, auxVars>>

\* The output node is evaluated for the texel with the uniforms in effect.
Shade ==
  /\ ~output.evaluated
  /\ output' = [evaluated |-> TRUE, composite |-> finalComposite(texel, cfg),
                value |-> debugOutput(texel, cfg)]
  /\ UNCHANGED <<texel, cfg, pipeVars, auxVars>>

CompNext ==
  \/ \E v \in Views : DebugViewChange(v)
  \/ \E v \in NoiseSlider : NoiseChange(v)
  \/ \E b \in BOOLEAN : EdgesVisibleChange(b)
  \/ \E b \in BOOLEAN : GlowVisibleChange(b)
  \/ \E o \in 0..Unit : OpacityChange(o)
  \/ Shade

AuxInit ==
  /\ SizeInit({CHOOSE v \in FrameViewports : v.innerWidth = 800})
  /\ LoopInit
  /\ AnimInit
  /\ MathInit({ScenarioB})
  /\ ShadeInit({DuoFragment})
  /\ GlowInit
  /\ SettingsInit

Init ==
  /\ AuxInit
  /\ PipeInit
  /\ texel = [color |-> 0, mask |-> 0, edges |-> 0, glow |-> 0, noise |-> 0]
  /\ CompDefaults

Next ==
  \/ InitApp
  \/ InitReject
  \/ LoopFrame
  \/ AsyncFrame
  \/ TargetPass
  \/ MaskSetup
  \/ GlowSetup
  \/ SceneSetup
  \/ ScenePass
  \/ Finish
  \/ PassThrow
  \/ \E s \in Scenes : GoToScene(s)
  \/ \E v \in EdgeGlowSlider : EdgeGlowChange(v)
  \/ \E v \in FrameViewports : WindowResize(v)

Spec == Init /\ [][Next]_vars

\* The output node alone, for every texel.
InitComposite == AuxInit /\ PipeInit /\ CompInit

SpecComposite == InitComposite /\ [][CompNext]_vars


\* One evaluation of the gradient, for every argument list.
InitBspline ==
  /\ SizeInit({CHOOSE v \in FrameViewports : v.innerWidth = 800})
  /\ LoopInit
  /\ AnimInit
  /\ MathInit(GradientInputs)
  /\ ShadeInit({DuoFragment})
  /\ GlowInit
  /\ SettingsInit
  /\ PipeInit
  /\ texel = [color |-> 0, mask |-> 0, edges |-> 0, glow |-> 0, noise |-> 0]
  /\ CompDefaults

NextBspline == EvalGradient

SpecBspline == InitBspline /\ [][NextBspline]_vars

\* One pill fragment and one glow fragment at the same height.
InitShade ==
  /\ SizeInit({CHOOSE v \in FrameViewports : v.innerWidth = 800})
  /\ LoopInit
  /\ AnimInit
  /\ MathInit({ScenarioB})
  /\ ShadeInit(ShadeInputs)
  /\ GlowInit
  /\ SettingsInit
  /\ PipeInit
  /\ texel = [color |-> 0, mask |-> 0, edges |-> 0, glow |-> 0, noise |-> 0]
  /\ CompDefaults

NextShade == ShadeFragment

SpecShade == InitShade /\ [][NextShade]_vars

\* The window and the render targets alone, for every window.
InitResize ==
  /\ SizeInit(Viewports)
  /\ LoopInit
  /\ AnimInit
  /\ MathInit({ScenarioB})
  /\ ShadeInit({DuoFragment})
  /\ GlowInit
  /\ SettingsInit
  /\ PipeInit
  /\ texel = [color |-> 0, mask |-> 0, edges |-> 0, glow |-> 0, noise |-> 0]
  /\ CompDefaults

NextResize ==
  \/ \E v \in Viewports : WindowResize(v)
  \/ Resize

SpecResize == InitResize /\ [][NextResize]_vars

\* The render loop with its clock: frames of render, scene switches and the
\* edge-glow slider between them.
NextLoop ==
  \/ InitApp
  \/ TargetPass
  \/ MaskSetup
  \/ GlowSetup
  \/ SceneSetup
  \/ ScenePass
  \/ Finish
  \/ \E t \in 1..MaxTime : LoopCallback(t)
  \/ \E s \in Scenes : GoToScene(s)
  \/ \E v \in EdgeGlowSlider : EdgeGlowChange(v)

SpecLoop == Init /\ [][NextLoop]_vars

\* The scenes and their animations: start-up, scene switches, the pause toggle
\* and the animation ticker.
NextScenes ==
  \/ InitApp
  \/ TargetPass
  \/ MaskSetup
  \/ GlowSetup
  \/ SceneSetup
  \/ ScenePass
  \/ Finish
  \/ \E s \in Scenes : GoToScene(s)
  \/ \E b \in BOOLEAN : PauseToggle(b)
  \/ Tick

SpecScenes == Init /\ [][NextScenes]_vars

\* Pills, glow planes and their uniforms: start-up, frames, scene switches and
\* the bend, wave and rotation sliders.
NextGlow ==
  \/ InitApp
  \/ LoopFrame
  \/ TargetPass
  \/ MaskSetup
  \/ GlowSetup
  \/ SceneSetup
  \/ ScenePass
  \/ Finish
  \/ \E s \in Scenes : GoToScene(s)
  \/ \E i \in 1..MaxScenePills, v \in BendSlider : BendChange(i, v)
  \/ \E f \in {"waveAmp", "waveFreq", "wavePhase"}, v \in WaveSlider : WaveChange(f, v)
  \/ \E v \in RotationSlider : RotationChange(v)

SpecGlow == Init /\ [][NextGlow]_vars

\* The GUI and the uniforms it drives: start-up, frames, scene switches and
\* the controls of createGUI.
NextGui ==
  \/ InitApp
  \/ LoopFrame
  \/ TargetPass
  \/ MaskSetup
  \/ GlowSetup
  \/ SceneSetup
  \/ ScenePass
  \/ Finish
  \/ \E s \in Scenes : GoToScene(s)
  \/ \E v \in EdgeGlowSlider : EdgeGlowChange(v)
  \/ \E f \in {"waveAmp", "waveFreq", "wavePhase"}, v \in WaveSlider : WaveChange(f, v)
  \/ \E v \in RotationSlider : RotationChange(v)
  \/ \E v \in EdgeWidthSlider : EdgeWidthChange(v)
  \/ \E v \in BloomStrengthSlider : BloomStrengthChange(v)
  \/ \E v \in BloomRadiusSlider : BloomRadiusChange(v)
  \/ \E v \in GlowIntensitySlider : GlowIntensityChange(v)
  \/ \E v \in GlowFalloffSlider : GlowFalloffChange(v)
  \/ \E v \in NoiseSlider : NoiseChange(v)
  \/ \E b \in BOOLEAN : EdgesVisibleChange(b)
  \/ \E b \in BOOLEAN : GlowVisibleChange(b)
  \/ \E v \in Views : DebugViewChange(v)

SpecGui == Init /\ [][NextGui]_vars

(***************************************************************************)
(* Pixel values of a target at a rim fragment of pill p whose gradient     *)
(* colour is g / Unit and whose edge falloff is f / Unit, in units of      *)
(* 1 / (2 * Unit^2).                                                       *)
(***************************************************************************)
White == 2 * Unit * Unit

\* colorNode = gradientColor * baseColor (1.0);
\* emissiveNode = gradientColor * edgeFalloff * edgeGlow.
PillShade(g, f, eg) == 2 * Unit * g + g * f * eg

\* glowColor at the pill axis: gradientColor * falloff (1) * glowIntensity (0.5).
GlowShade(g) == Unit * g

\* The pill mesh covers its glow plane; the white material is float(1.0).
PillPixel(c, p, g, f) ==
  CASE c[p].mesh = "white" -> White
    [] c[p].mesh = "shaded" -> PillShade(g, f, c[p].edgeGlow)
    [] c[p].mesh = "none" /\ c[p].plane = "white" -> White
    [] c[p].mesh = "none" /\ c[p].plane = "glow" -> GlowShade(g)
    [] OTHER -> 0

\* scenePassColor.sub(colorTexture) for the frame on the screen.
emissiveOnly(p, g, f) == PillPixel(screen.scene, p, g, f) - PillPixel(screen.color, p, g, f)

(***************************************************************************)
(* Checked properties.                                                     *)
(***************************************************************************)
PassOrder == <<"colorTarget", "maskTarget", "glowTarget", "screen">>

IsPrefix(a, b) == Len(a) <= Len(b) /\ \A i \in 1..Len(a) : a[i] = b[i]

FramePills == Range(args.pills)

FramePlanes == Range(args.glowPlanes)

\* C1: in every frame of render and of renderAsync the targets are written in
\* the order colour, mask, glow, composite, each at most once and exactly once
\* by the time the composite runs, and the composite shows the three targets as
\* written in its own frame.
C1_StrictPassOrder ==
  /\ IsPrefix(writes, PassOrder)
  /\ pc = "ColorPass" => writes = <<>>
  /\ pc \in {"ColorDone", "MaskPass"} => writes = SubSeq(PassOrder, 1, 1)
  /\ pc \in {"MaskDone", "GlowPass"} => writes = SubSeq(PassOrder, 1, 2)
  /\ pc \in {"GlowDone", "ScenePass"} => writes = SubSeq(PassOrder, 1, 3)
  /\ pc = "SceneDone" =>
       /\ writes = PassOrder
       /\ screen.frame = frameNo
       /\ screen.passes = SubSeq(PassOrder, 1, 3)
       /\ screen.color = colorTarget
       /\ screen.mask = maskTarget
       /\ screen.glow = glowTarget

\* An asynchronous frame that reached its composite with pills to draw.
C1_Witness ==
  /\ pc = "SceneDone"
  /\ mode = "async"
  /\ args.pills # <<>>
  /\ writes = PassOrder

\* C2: when the colour pass is submitted every pill of the frame has edge glow 0
\* and every glow plane of the frame is hidden, whatever they were on entry, and
\* the colour target is drawn so.
C2_ColorPassClean ==
  /\ pc = "ColorPass" =>
       /\ \A p \in FramePills : edgeGlow[p] = 0
       /\ \A q \in FramePlanes : ~planeVisible[q]
  /\ pc = "ColorDone" =>
       \A p \in FramePills : colorTarget[p].edgeGlow = 0 /\ colorTarget[p].plane = "none"

\* A colour pass whose pills entered the frame glowing, with their planes shown,
\* after a frame that was aborted in its mask pass.
C2_Witness ==
  /\ pc = "ColorPass"
  /\ \E p \in FramePills : entry.edgeGlow[p] # 0 /\ entry.planeVisible[p]
  /\ entry.overrideMaterial = "white"

\* C3: the white override material is in effect at the mask pass and only then:
\* it is null at the colour, glow and scene passes and once a frame has
\* finished; at the mask pass the pills are visible and the planes hidden, so
\* the mask target holds the silhouettes of the displayed pills only.
C3_OverrideOnlyInMaskPass ==
  /\ pc \in {"ColorPass", "GlowPass", "ScenePass"} => overrideMaterial = "null"
  /\ (pc = "idle" /\ writes = PassOrder) => overrideMaterial = "null"
  /\ pc = "MaskPass" =>
       /\ overrideMaterial = "white"
       /\ \A p \in FramePills : pillVisible[p]
       /\ \A q \in FramePlanes : ~planeVisible[q]
  /\ (pc = "MaskDone" /\ mode # "async") =>
       \A p \in FramePills :
         /\ maskTarget[p].plane = "none"
         /\ maskTarget[p].mesh = IF containerVisible[SceneOf(p)] THEN "white" ELSE "none"

\* C4: when the glow pass is submitted every pill of the frame is hidden and
\* every glow plane of the frame visible; when the scene pass is submitted the
\* pills are visible again and the planes hidden again.
C4_GlowPassVisibility ==
  /\ pc = "GlowPass" =>
       /\ \A p \in FramePills : ~pillVisible[p]
       /\ \A q \in FramePlanes : planeVisible[q]
  /\ pc = "GlowDone" => \A p \in FramePills : glowTarget[p].mesh = "none"
  /\ pc = "ScenePass" =>
       /\ \A p \in FramePills : pillVisible[p]
       /\ \A q \in FramePlanes : ~planeVisible[q]

\* A scene pass about to run after a glow pass that drew the planes of the frame.
C4_Witness ==
  /\ pc = "ScenePass"
  /\ args.pills # <<>>
  /\ \A p \in FramePills : glowTarget[p].plane = "glow" /\ glowTarget[p].mesh = "none"

\* C5: when the scene pass is submitted every pill of the frame has the edge
\* glow given to the frame (it was 0 in the colour target), is visible, and
\* every glow plane of the frame is hidden.
C5_ScenePassRestored ==
  pc = "ScenePass" =>
    /\ \A p \in FramePills :
         /\ edgeGlow[p] = args.savedEdgeGlow
         /\ colorTarget[p].edgeGlow = 0
         /\ pillVisible[p]
    /\ \A q \in FramePlanes : ~planeVisible[q]

\* A scene pass with a saved edge glow that is neither 0 nor the pills' initial one.
C5_Witness ==
  /\ pc = "ScenePass"
  /\ args.pills # <<>>
  /\ args.savedEdgeGlow \notin {0, InitialEdgeGlow}

\* C6: the composite is ColorTarget*Mask + Bloom*(1-Mask)*edgesVisible +
\* GlowTarget*(1-Mask)*glowVisible; where the mask is 1 it is the colour target
\* whatever bloom and glow are, where the mask is 0 the colour target adds
\* nothing, and a toggle at 0 removes its term.
C6_CompositeAlgebra ==
  output.evaluated =>
    /\ output.composite =
         texel.color * texel.mask
         + texel.edges * (Unit - texel.mask) * cfg.edgesVisible
         + texel.glow * (Unit - texel.mask) * cfg.glowVisible
    /\ texel.mask = Unit => output.composite = texel.color * Unit
    /\ texel.mask = 0 =>
         output.composite =
           Unit * (texel.edges * cfg.edgesVisible + texel.glow * cfg.glowVisible)
    /\ cfg.edgesVisible = 0 =>
         output.composite =
           texel.color * texel.mask + texel.glow * (Unit - texel.mask) * cfg.glowVisible
    /\ cfg.glowVisible = 0 =>
         output.composite =
           texel.color * texel.mask + texel.edges * (Unit - texel.mask) * cfg.edgesVisible

\* A fully masked pixel with bloom and glow present and both toggles on.
C6_Witness ==
  /\ output.evaluated
  /\ texel.mask = Unit
  /\ texel.color > 0 /\ texel.color < Unit
  /\ texel.edges > 0
  /\ texel.glow > 0
  /\ cfg.edgesVisible = 1
  /\ cfg.glowVisible = 1

\* C7: for every pixel of a frame shown by render the scene pass colour minus
\* the colour target is the emissive term gradient * falloff * edge glow of the
\* pill drawn there, and 0 where the saved edge glow is 0.
C7_EmissiveExtraction ==
  (screen.frame > 0 /\ screen.by # "async") =>
    \A p \in AllPills : \A g \in 1..Unit : \A f \in 0..Unit :
      emissiveOnly(p, g, f) =
        IF screen.scene[p].mesh = "shaded" THEN g * f * screen.savedEdgeGlow ELSE 0

\* C8: the debug view chosen in the GUI selects the output: final the faded
\* composite with noise, mask the mask target, edges the bloom, color the colour
\* target, glow the glow target; the raw views do not depend on opacity or noise.
C8_DebugViewSelects ==
  output.evaluated =>
    output.value =
      CASE cfg.view = "final" ->
             (200 * output.composite
              + Unit * (texel.noise - Unit) * cfg.noiseStrength) * cfg.opacity
        [] cfg.view = "mask" -> Raw(texel.mask)
        [] cfg.view = "edges" -> Raw(texel.edges)
        [] cfg.view = "color" -> Raw(texel.color)
        [] cfg.view = "glow" -> Raw(texel.glow)

\* The mask view at opacity 0 with noise on, over a texel whose mask differs
\* from its other textures.
C8_Witness ==
  /\ output.evaluated
  /\ cfg.view = "mask"
  /\ cfg.opacity = 0
  /\ cfg.noiseStrength > 0
  /\ texel.mask = Unit
  /\ texel.color = 0 /\ texel.edges = 0 /\ texel.glow = 0
  /\ output.value = Raw(Unit)

\* C9 as claimed: at opacity 0 the output is black for every texel, with no
\* restriction on the noise strength, the visibility toggles or the debug view.
C9_OpacityZeroIsBlack ==
  (output.evaluated /\ cfg.opacity = 0) => output.value = 0

\* C9 as amended: at opacity 0 and with the debug view "final" the output is
\* black for every texel, noise strength and visibility toggle.
C9_OpacityZeroIsBlackInFinalView ==
  (output.evaluated /\ cfg.opacity = 0 /\ cfg.view = "final") => output.value = 0

\* The final view at opacity 0 over a lit texel with noise on.
C9_Witness ==
  /\ output.evaluated
  /\ cfg.opacity = 0
  /\ cfg.view = "final"
  /\ cfg.noiseStrength > 0
  /\ texel.noise # Unit
  /\ output.composite > 0

\* C10: a submission that throws ends the frame at once: no target and no
\* screen content changes with it, nothing runs until a new frame begins with
\* its colour pass, and every frame on the screen was composed after its own
\* three target passes.
C10_FailureAbortsFrame ==
  /\ [][failures' # failures =>
          /\ pc' = "idle"
          /\ screen' = screen
          /\ writes' = writes
          /\ <<colorTarget, maskTarget, glowTarget>>' =
               <<colorTarget, maskTarget, glowTarget>>]_vars
  /\ [][(pc = "idle" /\ pc' # "idle") =>
          /\ pc' = "ColorPass"
          /\ frameNo' = frameNo + 1
          /\ writes' = <<>>]_vars
  /\ [](screen.frame > 0 => screen.passes = SubSeq(PassOrder, 1, 3))

\* A frame aborted after its colour pass while an earlier frame is on the screen.
C10_Witness ==
  /\ failures > 0
  /\ pc = "idle"
  /\ writes # <<>>
  /\ writes # PassOrder
  /\ screen.frame > 0
  /\ screen.frame < frameNo

\* C11: after a submission failure no state of the failed frame persists: at
\* the colour pass of every later frame the override material is null, every
\* pill of the frame is visible with edge glow 0 and every glow plane of the
\* frame is hidden, and the frame was entered with no override material set.
C11_FailedFrameLeavesNoState ==
  (pc = "ColorPass" /\ failures > 0) =>
    /\ overrideMaterial = "null"
    /\ entry.overrideMaterial = "null"
    /\ \A p \in FramePills : pillVisible[p] /\ edgeGlow[p] = 0
    /\ \A q \in FramePlanes : ~planeVisible[q]

\* C12: resize is a barrier between frames: from the first submission of a
\* frame to its composite, under render and under renderAsync, the targets
\* are the ones the frame was entered with, so no pass and no composite reads
\* a target resized after an earlier pass of the frame wrote it.
C12_ResizeIsBarrier ==
  pc \in {"ColorDone", "MaskPass", "MaskDone", "GlowPass", "GlowDone", "ScenePass"} =>
    targets = entry.targets

\* The size getTargetSize is claimed to give, in halves.
ClaimedSize(win) ==
  [w |-> Min(win.innerWidth * Min(win.devicePixelRatio, 4), 2 * 4096),
   h |-> Min(win.innerHeight * Min(win.devicePixelRatio, 4), 2 * 4096)]

C14_ResizeIdempotent ==
  /\ [][(events' # events /\ window' = window) => targets' = targets]_vars
  /\ [](PostFXResize(PostFXResize(targets, window), window) = PostFXResize(targets, window))
  /\ [](\A n \in TargetNames : targets[n].id = NewTargets(getTargetSize(window))[n].id)

\* Two resize events have run and the targets are not of the size they were
\* constructed with.
C14_Witness ==
  /\ events = 2
  /\ targets # entry.targets
  /\ PostFXResize(targets, window) = targets

\* A step of the loop callback, and one in which it called animate.
IsCallback == now' # now

IsRendered == now' # now /\ frameNo' # frameNo

\* What holds of every callback whatever the spacing of rendered frames: a
\* callback renders when and only when a frame interval has passed since
\* lastFrameTime, it renders one frame, with the pill list and saved edge glow
\* of that moment, and a skipped callback leaves nothing behind to replay.
ThrottleStep ==
  IsCallback =>
    /\ IsRendered <=> (now' - lastFrameTime >= frameInterval)
    /\ IsRendered =>
         /\ frameNo' = frameNo + 1
         /\ pc' = "ColorPass"
         /\ args'.pills = getCurrentPills
         /\ args'.glowPlanes = getGlowPlanes
         /\ args'.savedEdgeGlow = savedEdgeGlow
    /\ ~IsRendered => UNCHANGED <<pipeVars, lastFrameTime, lastRenderTime>>

\* C15: the frame cadence is throttled: besides the above, a callback that
\* arrives less than one frame interval after the previous rendered frame is
\* skipped.
C15_ThrottledByRenderedFrame ==
  /\ [][ThrottleStep]_vars
  /\ [][(IsRendered /\ lastRenderTime >= 0) =>
          now' - lastRenderTime >= frameInterval]_vars

\* C16: once a scene has been switched to, exactly the current scene's
\* container is visible, and no step advances the positions or the group
\* scale of a scene that is not the current one: its render inputs are frozen.
C16_InactiveScenesFrozen ==
  /\ [](currentSceneName # "null" =>
          \A s \in Scenes : containerVisible[s] <=> s = currentSceneName)
  /\ [][currentSceneName # "null" =>
          \A s \in Scenes :
            (s # currentSceneName /\ s # currentSceneName') =>
              sceneInputs'[s] = sceneInputs[s]]_vars

StrictlyIncreasing(st) == \A i \in 1..3 : st[i] < st[i + 1]

\* Two segment values are the same colour: equal fractions in every channel.
SameValue(a, b) ==
  /\ a.den # 0
  /\ b.den # 0
  /\ \A ch \in Channels : a.num[ch] * b.den = b.num[ch] * a.den

\* C17: for strictly increasing stops the gradient is continuous at s2 and at
\* s3: at t = s2 segment 1 (taken at its local parameter 1) and segment 2
\* (taken at its local parameter 0) are the same colour, which is the result;
\* at t = s3 the same holds of segments 2 and 3.
C17_ContinuousAtInnerStops ==
  (bsOut.evaluated /\ StrictlyIncreasing(bsIn.st)) =>
    /\ (bsIn.t = bsIn.st[2]) =>
         (SameValue(bsOut.seg1, bsOut.seg2) /\ SameValue(bsOut.value, bsOut.seg1))
    /\ (bsIn.t = bsIn.st[3]) =>
         (SameValue(bsOut.seg2, bsOut.seg3) /\ SameValue(bsOut.value, bsOut.seg2))

C17_Witness ==
  /\ bsOut.evaluated
  /\ StrictlyIncreasing(bsIn.st)
  /\ bsIn.t = bsIn.st[2]
  /\ \A i, j \in 1..4 : (i # j) => (bsIn.c[i] # bsIn.c[j])
  /\ SameValue(bsOut.seg1, bsOut.seg2)
  /\ \E ch \in Channels : bsOut.value.num[ch] # 0


\* The segment the claim selects for a clamped parameter, and its control points.
ClaimedSegment(tc, st) == IF tc < st[2] THEN 1 ELSE IF tc < st[3] THEN 2 ELSE 3

ClaimedPoints(k, c) ==
  CASE k = 1 -> <<c[1], c[1], c[2], c[3]>>
    [] k = 2 -> <<c[1], c[2], c[3], c[4]>>
    [] k = 3 -> <<c[2], c[3], c[4], c[4]>>

C19_ScenarioB ==
  (bsOut.evaluated /\ bsIn.c = ScenarioB.c /\ bsIn.st = ScenarioB.st) =>
    LET c == bsIn.c
        st == bsIn.st
    IN /\ (bsIn.t = 0) =>
            /\ bsOut.value = bsplineBasis(0, st[2] - st[1], c[1], c[1], c[2], c[3])
            /\ SameValue(bsOut.value, [den |-> 6, num |-> <<5, 1, 0>>])
       /\ (bsIn.t = StopMax) =>
            /\ bsOut.value =
                 bsplineBasis(st[4] - st[3], st[4] - st[3], c[2], c[3], c[4], c[4])
            /\ SameValue(bsOut.value, [den |-> 6, num |-> <<5, 5, 6>>])

C19_Witness ==
  /\ bsOut.evaluated
  /\ bsIn = ScenarioB
  /\ bsOut.value = bsOut.seg1
  /\ bsOut.value.num[1] > bsOut.value.num[2] + bsOut.value.num[3]
  /\ bsOut.value.num[2] > 0
  /\ bsOut.value.num[1] < bsOut.value.den


\* uniforms[f].value as the shader of glow plane g reads it.
GlowSees(g, f) == uniformValue[planes[g].u][f]

\* C20: once the pills are built, every pill refers to one glow plane, that
\* plane refers back to the pill and no two pills share a plane; the glow-plane
\* list of a frame has the length and the order of its pill list; and the
\* bend, wave amplitude, frequency, phase and rotation the glow plane's shader
\* reads are the pill's current values, whatever has changed them since.
C20_GlowFieldsPaired ==
  (frameNo > 0) =>
    /\ \A p \in AllPills :
         /\ glowPlane[p] # NoObject
         /\ planes[glowPlane[p]].pill = p
         /\ \A q \in AllPills : (glowPlane[q] = glowPlane[p]) => (q = p)
         /\ \A f \in Fields : GlowSees(glowPlane[p], f) = uniformValue[p][f]
    /\ Len(args.glowPlanes) = Len(args.pills)
    /\ \A i \in 1..Len(args.pills) :
         /\ args.glowPlanes[i] = glowPlane[args.pills[i]]
         /\ planes[args.glowPlanes[i]].pill = args.pills[i]

C20_Witness ==
  /\ pc = "GlowPass"
  /\ Len(args.pills) = 2
  /\ Len(args.glowPlanes) = 2
  /\ \E i \in 1..2 :
       /\ uniformValue[args.pills[i]].bend \in BendSlider
       /\ uniformValue[args.pills[3 - i]].bend \notin BendSlider
       /\ GlowSees(args.glowPlanes[i], "bend") \in BendSlider
       /\ GlowSees(args.glowPlanes[3 - i], "bend") \notin BendSlider


\* The three evaluations of bsplineBasis made by the gradient: local
\* parameter n / d, control points p, value v.
BasisCalls ==
  LET st == bsIn.st
      tc == clamp(bsIn.t, st[1], st[4])
  IN {[n |-> tc - st[k], d |-> st[k + 1] - st[k], p |-> ClaimedPoints(k, bsIn.c),
       v |-> IF k = 1 THEN bsOut.seg1 ELSE IF k = 2 THEN bsOut.seg2 ELSE bsOut.seg3] :
        k \in 1..3}

ChannelMin(p, ch) == CHOOSE m \in {p[i][ch] : i \in 1..4} : \A i \in 1..4 : m <= p[i][ch]

ChannelMax(p, ch) == CHOOSE m \in {p[i][ch] : i \in 1..4} : \A i \in 1..4 : m >= p[i][ch]

\* C28: the weights of bsplineBasis sum to 1 for every t (four equal control
\* points give exactly that colour, inside and outside [0, 1]) and for t in
\* [0, 1] the result is a convex combination: every channel lies between the
\* least and the greatest value of that channel over the control points.
C28_BasisIsConvex ==
  bsOut.evaluated =>
    \A b \in BasisCalls :
      (b.d > 0) =>
        /\ (\A i \in 1..4 : b.p[i] = b.p[1]) =>
             \A ch \in Channels : b.v.num[ch] = b.p[1][ch] * b.v.den
        /\ (0 <= b.n /\ b.n <= b.d) =>
             \A ch \in Channels :
               /\ ChannelMin(b.p, ch) * b.v.den <= b.v.num[ch]
               /\ b.v.num[ch] <= ChannelMax(b.p, ch) * b.v.den

C28_Witness ==
  /\ bsOut.evaluated
  /\ \E b \in BasisCalls :
       /\ 0 < b.n
       /\ b.n < b.d
       /\ \A i, j \in 1..4 : (i # j) => (b.p[i] # b.p[j])
       /\ \E ch \in Channels : 0 < b.v.num[ch] /\ b.v.num[ch] < b.v.den


\* C29: lastFrameTime is always a whole multiple of frameInterval, between 0
\* and the latest callback time, and never decreases; right after a rendered
\* frame 0 <= currentTime - lastFrameTime < frameInterval; and the frames the
\* limiter has rendered (all but the start-up frame) number at most
\* lastFrameTime / frameInterval, hence at most T / frameInterval.
C29_LimiterGrid ==
  /\ [](/\ lastFrameTime % frameInterval = 0
        /\ 0 <= lastFrameTime
        /\ lastFrameTime <= now
        /\ (phase = "running") => ((frameNo - 1) * frameInterval <= lastFrameTime))
  /\ [][/\ lastFrameTime' >= lastFrameTime
        /\ IsRendered =>
             (0 <= now' - lastFrameTime' /\ now' - lastFrameTime' < frameInterval)]_vars

C29_Witness ==
  /\ phase = "running"
  /\ frameNo = 3
  /\ lastRenderTime = now
  /\ lastRenderTime > lastFrameTime
  /\ lastFrameTime = 2 * frameInterval


\* C27: when PostFX.render returns normally, whatever the state was at the
\* call, every pill passed in is visible with edge glow equal to the
\* savedEdgeGlow argument, every glow plane passed in is visible, no override
\* material is set and the render target is the screen; pills and glow planes
\* not passed in are as they were at the call.
C27_RenderPostcondition ==
  [][(pc = "SceneDone" /\ pc' = "idle" /\ mode # "async") =>
       /\ \A p \in FramePills :
            pillVisible'[p] /\ edgeGlow'[p] = args.savedEdgeGlow
       /\ \A g \in FramePlanes : planeVisible'[g]
       /\ overrideMaterial' = "null"
       /\ renderTarget' = "null"
       /\ \A p \in AllPills \ FramePills :
            pillVisible'[p] = entry.pillVisible[p] /\ edgeGlow'[p] = entry.edgeGlow[p]
       /\ \A g \in AllPills \ FramePlanes : planeVisible'[g] = entry.planeVisible[g]]_vars

C27_Witness ==
  /\ pc = "idle"
  /\ mode = "sync"
  /\ Len(writes) = 4
  /\ screen.frame = frameNo
  /\ FramePills # {}
  /\ \A g \in FramePlanes : ~entry.planeVisible[g] /\ planeVisible[g]
  /\ \A p \in FramePills :
       entry.edgeGlow[p] # args.savedEdgeGlow /\ edgeGlow[p] = args.savedEdgeGlow
  /\ \E p \in AllPills \ FramePills : edgeGlow[p] = entry.edgeGlow[p]


\* C25: a failed start-up is fatal: once the phase is fatal nothing is built
\* or rendered any more and the phase stays fatal, with the message shown; a
\* rejected renderer.init() builds no scene and renders no frame; and the
\* message about missing WebGPU support is on the loading element only when
\* renderer.init() itself rejected, that is when initApp never ran.
C25_InitFailureFatal ==
  /\ [](phase = "fatal" => loading = "WebGPU not supported.")
  /\ [][phase = "fatal" =>
          (phase' = "fatal" /\ frameNo' = frameNo /\ pc' = "idle"
           /\ screen' = screen /\ glowPlane' = glowPlane)]_vars
  /\ [](loading = "WebGPU not supported." =>
          (frameNo = 0 /\ \A p \in AllPills : glowPlane[p] = NoObject))


\* C23: whenever a frame is submitted for rendering, every pill it displays
\* has its waveRotation uniform equal to the rotation of the pill group.
C23_WaveRotationFollowsGroup ==
  (pc \in PassPositions) =>
    \A p \in FramePills :
      containerVisible[SceneOf(p)] => (uniformValue[p].waveRotation = groupRotation)


\* C24: every configuration value is in its range at all times: edge glow in
\* [0, 5], edge width in [0.1, 1], bloom strength in [0, 3], bloom radius in
\* [0, 1], glow intensity in [0, 2], glow falloff in [0.5, 5], noise strength
\* in [0, 0.1], the debug view one of the five views, wave amplitude in [0, 1],
\* wave frequency in [0, 2], wave phase in [0, 2 pi], rotation in [0, 360]
\* degrees and opacity in [0, 1]; for the values the GUI shows, the uniforms
\* of the compositor and, once built, the uniforms of every pill and plane.
C24_ValuesInRange ==
  /\ savedEdgeGlow \in 0..10
  /\ gui.edgeWidth \in 100..1000
  /\ gui.strength \in 0..3000 /\ bloom.strength \in 0..3000
  /\ gui.radius \in 0..1000 /\ bloom.radius \in 0..1000
  /\ gui.intensity \in 0..2000
  /\ gui.falloff \in 500..5000
  /\ gui.noise \in 0..10 /\ cfg.noiseStrength \in 0..10
  /\ cfg.view \in Views /\ cfg.debugViewUniform \in 0..4
  /\ gui.amp \in 0..1000
  /\ gui.freq \in 0..2000
  /\ gui.phase \in 0..6284
  /\ gui.rotation \in 0..360
  /\ groupRotation \in 0..Radians(360)
  /\ cfg.opacity \in 0..Unit
  /\ (frameNo > 0) =>
       \A p \in AllPills :
         /\ edgeGlow[p] \in 0..10
         /\ pillSettings[p].edgeWidth \in 100..1000
         /\ pillSettings[p].glowIntensity \in 0..2000
         /\ pillSettings[p].glowFalloff \in 500..5000
         /\ uniformValue[p].waveAmp \in 0..1000
         /\ uniformValue[p].waveFreq \in 0..2000
         /\ uniformValue[p].wavePhase \in 0..6284
         /\ uniformValue[p].waveRotation \in 0..Radians(360)


\* Pills on display: those of a visible container.
Displayed == {p \in AllPills : frameNo > 0 /\ containerVisible[SceneOf(p)]}

\* C30: at all times every GUI control shows the value of the uniform it
\* drives: noise and the two visibility toggles on the compositor, bloom
\* strength and radius on the bloom pass, edge width, glow intensity, glow
\* falloff and wave amplitude, frequency and phase on every displayed pill and
\* its glow plane; and every scene has a preset.
C30_GuiIsSourceOfTruth ==
  /\ \A s \in Scenes : HasPreset(s)
  /\ gui.noise = cfg.noiseStrength
  /\ gui.edgesVisible = cfg.edgesVisible
  /\ gui.glowVisible = cfg.glowVisible
  /\ gui.strength = bloom.strength
  /\ gui.radius = bloom.radius
  /\ \A p \in Displayed :
       /\ gui.edgeWidth = pillSettings[p].edgeWidth
       /\ gui.intensity = pillSettings[p].glowIntensity
       /\ gui.falloff = pillSettings[p].glowFalloff
       /\ gui.amp = uniformValue[p].waveAmp
       /\ gui.freq = uniformValue[p].waveFreq
       /\ gui.phase = uniformValue[p].wavePhase

\* C22: in every reachable state (after construction, after Pill.setPosition,
\* during every animation) each built pill's glow plane has the x and y of the
\* pill's mesh and sits 0.1 behind it: glow z = mesh z - 0.1.
C22_GlowBehindObject ==
  \A p \in AllPills :
    glowPlane[p] = p =>
      position[p].glow =
        <<position[p].mesh[1], position[p].mesh[2], position[p].mesh[3] - 1>>

\* The fragment's local y lies on the pill: between boundsMin and boundsMax.
WithinExtent(in) ==
  /\ CapsuleBounds(in.radius, in.length).boundsMin <= in.y
  /\ in.y <= CapsuleBounds(in.radius, in.length).boundsMax

\* C21: for every local y within the pill's y extent and every bend, the glow
\* plane's gradient parameter clamp(yNorm + bend, 0, 1) equals the pill's
\* clamp(yNorm + edgeFactor * bend, 0, 1) at a silhouette normal
\* (normalLocal.z = 0), and with the same colours and stops the glow's tint
\* equals the pill's gradient colour.
C21_GlowGradientMatchesPill ==
  (shOut.evaluated /\ shIn.nz = 0 /\ WithinExtent(shIn)) =>
     /\ shOut.glowT.num * shOut.pillT.den = shOut.pillT.num * shOut.glowT.den
     /\ SameValue(shOut.glowColor, shOut.pillColor)

\* A silhouette fragment of a bent pill whose parameter the clamp leaves alone.
C21_Witness ==
  /\ shOut.evaluated
  /\ shIn.nz = 0
  /\ WithinExtent(shIn)
  /\ shIn.bend # 0
  /\ 0 < shOut.pillT.num
  /\ shOut.pillT.num < shOut.pillT.den

\* The output node's value is shown as black: not above 0.
ShownBlack == output.value <= 0

\* C26 as claimed (Scenario A): for a scene of one pill whose four colours are
\* black, with edge glow and glow intensity 0, the final output is black at
\* every pixel.
C26_ScenarioAIsBlack ==
  (output.evaluated /\ cfg.view = "final" /\ texel \in ScenarioATexels) => ShownBlack

\* C26 as amended: in Scenario A with the sensor noise strength 0 as well, the
\* clean colour is black, glow and edges add 0 to the composite, and the final
\* output is exactly black at every pixel.
C26_ScenarioAIsBlackWithoutNoise ==
  (output.evaluated /\ cfg.view = "final" /\ cfg.noiseStrength = 0
     /\ texel \in ScenarioATexels) =>
       /\ texel.color = 0
       /\ maskedGlow(texel, cfg) = 0
       /\ maskedEdges(texel, cfg) = 0
       /\ output.composite = 0
       /\ output.value = 0

\* A background pixel of Scenario A at full opacity with glow and edges
\* visible, noise strength 0 and a hash sample above one half.
C26_Witness ==
  /\ output.evaluated
  /\ cfg.view = "final"
  /\ cfg.noiseStrength = 0
  /\ cfg.opacity = Unit
  /\ cfg.glowVisible = 1
  /\ cfg.edgesVisible = 1
  /\ texel \in ScenarioATexels
  /\ texel.mask = 0
  /\ texel.noise > Unit

====
